---- MODULE Spec2Model ----
(***************************************************************************)
(* Query routing and aggregation of astro_anu (AstroGeo).                  *)
(*                                                                         *)
(* The repository holds several stand-alone query handlers.  One           *)
(* deployment runs one of them (app); it is constructed once (engine) and  *)
(* then serves requests one at a time.  A request is a query text with a   *)
(* "live data" flag; the external sources it reaches (vector index, NASA   *)
(* endpoints, crew run, weather tools) answer with an outcome drawn from a *)
(* small set.  A response is the list of content sections the handler      *)
(* appended after its header, the list of external calls it issued, and    *)
(* whether an exception left the handler.                                  *)
(***************************************************************************)
EXTENDS Integers, Sequences, FiniteSets, TLC

VARIABLES app, engine, phase, query, use_live, env, resp, resp2, tool_runs, requests

vars == <<app, engine, phase, query, use_live, env, resp, resp2, tool_runs, requests>>

(***************************************************************************)
(* Bounds                                                                  *)
(***************************************************************************)
\* words per query text
MaxWords == 2

(***************************************************************************)
(* Text: python str.lower(), str.strip(), "k in s"                         *)
(***************************************************************************)
UpperToLower ==
    ("A" :> "a") @@ ("B" :> "b") @@ ("C" :> "c") @@ ("D" :> "d") @@ ("E" :> "e") @@
    ("F" :> "f") @@ ("G" :> "g") @@ ("H" :> "h") @@ ("I" :> "i") @@ ("J" :> "j") @@
    ("K" :> "k") @@ ("L" :> "l") @@ ("M" :> "m") @@ ("N" :> "n") @@ ("O" :> "o") @@
    ("P" :> "p") @@ ("Q" :> "q") @@ ("R" :> "r") @@ ("S" :> "s") @@ ("T" :> "t") @@
    ("U" :> "u") @@ ("V" :> "v") @@ ("W" :> "w") @@ ("X" :> "x") @@ ("Y" :> "y") @@
    ("Z" :> "z")

CharAt(s, i) == SubSeq(s, i, i)

LowerChar(c) == IF c \in DOMAIN UpperToLower THEN UpperToLower[c] ELSE c

RECURSIVE LowerFrom(_, _)
LowerFrom(s, i) ==
    IF i > Len(s) THEN "" ELSE LowerChar(CharAt(s, i)) \o LowerFrom(s, i + 1)

\* str.lower()
Lower(s) == LowerFrom(s, 1)

Whitespace == {" "}

\* not query.strip()
IsBlank(s) == \A i \in 1..Len(s) : CharAt(s, i) \in Whitespace

\* k in s
In(k, s) ==
    \E i \in 1..(Len(s) - Len(k) + 1) : SubSeq(s, i, i + Len(k) - 1) = k

\* any(term in s for term in terms)
AnyIn(terms, s) == \E k \in terms : In(k, s)

IsUpper(c) == c \in DOMAIN UpperToLower

IsLetter(c) == IsUpper(c) \/ \E u \in DOMAIN UpperToLower : UpperToLower[u] = c

\* \w
IsWordChar(c) ==
    IsLetter(c) \/ c \in {"0", "1", "2", "3", "4", "5", "6", "7", "8", "9", "_"}

\* [a-zA-Z\s,-]
IsLocationChar(c) == IsLetter(c) \/ c \in Whitespace \/ c \in {",", "-"}

\* the first index from i on that holds no whitespace
RECURSIVE SkipSpaces(_, _)
SkipSpaces(s, i) ==
    IF i <= Len(s) /\ CharAt(s, i) \in Whitespace THEN SkipSpaces(s, i + 1) ELSE i

Min(S) == CHOOSE n \in S : \A m \in S : n <= m

\* str.rstrip() of the characters in chars
RECURSIVE RStrip(_, _)
RStrip(s, chars) ==
    IF s # "" /\ CharAt(s, Len(s)) \in chars
    THEN RStrip(SubSeq(s, 1, Len(s) - 1), chars)
    ELSE s

\* str.strip()
Strip(s) == RStrip(SubSeq(s, SkipSpaces(s, 1), Len(s)), Whitespace)

(***************************************************************************)
(* Requests                                                                *)
(***************************************************************************)
\* the handlers of the repository; one deployment runs one of them
Apps ==
    {"run", "multi", "astro_intel", "simple", "final", "gradio", "geo_expert", "backup",
     "tools", "agents"}

\* the provider tools of tools/nasa_api.py and tools/isro_api.py and the
\* retrieval of the weather data of tools/weather_api.py, each by the name
\* of the source it asks first: a request to "tools" names the one to run
Tool_names == {"apod", "mars_photos", "neo", "flr", "isro", "weather_tool"}

\* words the keyword tables of handler a tell apart, and one ("pizza") that
\* none of them knows
Vocab(a) ==
    IF a \in {"run", "multi"}
    THEN {"ISRO", "bhuvan", "nasa", "today", "picture", "solar", "mars",
          "asteroid", "satellite", "space", "pizza", "weather"}
    ELSE IF a \in {"astro_intel", "simple"}
    THEN {"ISRO", "nasa", "today", "picture", "solar", "mars", "asteroid",
          "space", "pizza"}
    ELSE IF a = "final" THEN {"ISRO", "nasa", "mars", "pizza"}
    ELSE IF a = "gradio" THEN {"weather", "nasa", "pizza"}
    ELSE IF a = "geo_expert" THEN {"weather", "pollution", "comprehensive", "pizza"}
    ELSE {"weather", "today", "forecast", "pizza"}

RECURSIVE Texts(_, _)
Texts(n, words) ==
    IF n = 0 THEN {""}
    ELSE LET shorter == Texts(n - 1, words)
         IN  shorter \cup words
                     \cup {t \o " " \o w : t \in (shorter \ {""}), w \in words}

\* whole requests that name a place, as users phrase them
Phrases(a) ==
    IF a = "geo_expert"
    THEN {"weather in mumbai", "Weather in Mumbai?", "WEATHER IN MUMBAI!",
          "weather for Delhi in Mumbai", "analysis for temperature",
          "pollution in Delhi", "comprehensive for Atlantis",
          "comprehensive for Paris"}
    ELSE IF a = "gradio"
    THEN {"weather in mumbai", "Weather in Mumbai?", "WEATHER IN MUMBAI!",
          "temperature in Delhi", "rain today"}
    ELSE IF a = "backup"
    THEN {"weather in mumbai", "Weather in Mumbai?", "WEATHER IN MUMBAI!",
          "weather in Ab, for Pune", "weather of Goa at Pune"}
    ELSE {}

\* the query texts handler a is sent: nothing, blanks, up to MaxWords words,
\* and the phrases
\* the agent factories of agents/: a request to "agents" names the one to call
Agent_names == {"data_harvester", "multi_api_manager", "astro_intel"}

Queries ==
    [a \in Apps |-> IF a = "tools" THEN Tool_names
                    ELSE IF a = "agents" THEN Agent_names
                    ELSE Texts(MaxWords, Vocab(a)) \cup {" "} \cup Phrases(a)]

\* whether the handler of a takes the "live data" option
HasLiveOption(a) == a \in {"run", "multi", "simple", "final", "gradio"}

(***************************************************************************)
(* Responses                                                               *)
(***************************************************************************)
Section(kind, prov, of) == [kind |-> kind, prov |-> prov, of |-> of]

Response(raised, sections, calls) ==
    [raised |-> raised, sections |-> sections, calls |-> calls]

NoResponse == Response(FALSE, <<>>, <<>>)

\* outcome of one HTTP GET to a live provider
ProviderOutcomes == {"ok", "empty", "neterr", "http_err", "malformed"}

ProviderFailures == {"neterr", "http_err", "malformed"}

\* what one run of a location tool did: the candidates it found in the
\* query, the location it settled on ("" for None), the requests it sent to
\* the geocoding service to validate them, the location it passed on to the
\* retrieval of the data, and what the text shown for the run states about
\* its confidence
ToolRun(by, candidates, location, geocoded, forwarded, labels) ==
    [by |-> by, candidates |-> candidates, location |-> location,
     geocoded |-> geocoded, forwarded |-> forwarded, labels |-> labels]

(***************************************************************************)
(* Semantic retriever of run_astrogeo.py                                   *)
(***************************************************************************)
\* texts stored in the persisted index
Passages == {"Bhuvan OCM data products", "ISRO Chandrayaan mission", "Mars rover"}

\* distances in tenths: the scores 1 - d are 1.0, 0.4, 0.3, 0.2 and -0.2
Distances == {0, 6, 7, 8, 12}

Doc(content, distance) == [content |-> content, distance |-> distance]

\* what collection.query ranks, nearest first: nothing, one passage, or a
\* near passage followed by a far one
Rankings ==
    {<<>>} \cup {<<Doc(p, 6)>> : p \in Passages}
           \cup {<<Doc("Bhuvan OCM data products", d)>> : d \in Distances}
           \cup {<<Doc(p, 6), Doc("Mars rover", 8)>> : p \in Passages}

Answer(status, docs) == [status |-> status, docs |-> docs]

\* what collection.query answers: a ranking, or an exception
IndexAnswers == {Answer("ok", r) : r \in Rankings} \cup {Answer("raise", <<>>)}

\* score > 0.3, in tenths
RunFloor == 3

Score(d) == 10 - d.distance

\* the filter keeping the candidates at the floor as well
RECURSIVE AboveFloor_inclusive(_, _)
AboveFloor_inclusive(r, floor) ==
    IF r = <<>> THEN <<>>
    ELSE LET rest == AboveFloor_inclusive(Tail(r), floor)
         IN  IF Score(Head(r)) >= floor
             THEN <<[content |-> Head(r).content, score |-> Score(Head(r))]>> \o rest
             ELSE rest

RECURSIVE AboveFloor(_, _)
AboveFloor(r, floor) ==
    IF r = <<>> THEN <<>>
    ELSE LET rest == AboveFloor(Tail(r), floor)
         IN  IF Score(Head(r)) > floor
             THEN <<[content |-> Head(r).content, score |-> Score(Head(r))]>> \o rest
             ELSE rest

\* search_vector_db answering the first search of a request only
Run_search_vector_db_once(eng, answer) ==
    IF ~eng.collection \/ ~eng.embedding_model \/ phase = "done"
    THEN [docs |-> <<>>, called |-> FALSE]
    ELSE IF answer.status = "raise"
    THEN [docs |-> <<>>, called |-> TRUE]
    ELSE [docs |-> AboveFloor(answer.docs, RunFloor), called |-> TRUE]

\* IntelligentAstroGeo.search_vector_db: [docs, called]
Run_search_vector_db(eng, answer) ==
    IF ~eng.collection \/ ~eng.embedding_model
    THEN [docs |-> <<>>, called |-> FALSE]
    ELSE IF answer.status = "raise"
    THEN [docs |-> <<>>, called |-> TRUE]
    ELSE [docs |-> AboveFloor(answer.docs, RunFloor), called |-> TRUE]

(***************************************************************************)
(* External sources and their answers                                      *)
(***************************************************************************)
Sources ==
    {"index", "apod", "flr", "neo", "mars_photos", "crew", "weather_tool",
     "airq_tool", "openweather", "isro", "forecast", "agents_yaml"}

\* what open() and yaml.safe_load give for config/agents.yaml: no file, a
\* file that cannot be read, text that is no YAML, an empty document (None),
\* a mapping without the entry of the agent, an entry without 'role', or a
\* complete entry
ConfigStates ==
    {"missing", "unreadable", "invalid_yaml", "empty", "no_entry", "incomplete", "complete"}

Unused == Answer("unused", <<>>)

\* the answers source s can give
Answers(s) ==
    IF s = "index" THEN IndexAnswers
    ELSE IF s = "crew" THEN {Answer("ok", <<>>), Answer("raise", <<>>)}
    ELSE IF s = "agents_yaml" THEN {Answer(c, <<>>) : c \in ConfigStates}
    ELSE {Answer(o, <<>>) : o \in ProviderOutcomes}

\* the answers drawn for one request: only the sources in S may be asked
Pick(S, s) == IF s \in S THEN Answers(s) ELSE {Unused}

RECURSIVE SeqToSet(_)
SeqToSet(q) == IF q = <<>> THEN {} ELSE {Head(q)} \cup SeqToSet(Tail(q))

\* the answers the sources in S may give to one request
Envs(S) ==
    {[index |-> i, apod |-> a, flr |-> f, neo |-> n, mars_photos |-> m, crew |-> c,
      weather_tool |-> w, airq_tool |-> q, openweather |-> o, isro |-> b,
      forecast |-> t, agents_yaml |-> y,
      geocode |-> <<>>, airq_geocode |-> <<>>] :
        i \in Pick(S, "index"), a \in Pick(S, "apod"), f \in Pick(S, "flr"),
        n \in Pick(S, "neo"), m \in Pick(S, "mars_photos"), c \in Pick(S, "crew"),
        w \in Pick(S, "weather_tool"), q \in Pick(S, "airq_tool"),
        o \in Pick(S, "openweather"), b \in Pick(S, "isro"),
        t \in Pick(S, "forecast"), y \in Pick(S, "agents_yaml")}

\* no source is asked
NoEnv == CHOOSE e \in Envs({}) : TRUE

(***************************************************************************)
(* run_astrogeo.py: IntelligentAstroGeo                                    *)
(***************************************************************************)
Run_ISRO_TERMS ==
    {"bhuvan", "isro", "saphir", "ocm", "indian space", "chandrayaan", "mangalyaan"}

Run_ASTEROID_TERMS == {"asteroid", "space rock", "dangerous", "near earth"}

\* the keyword lists of analyze_query_intent, by the agent each selects
Run_KEYWORDS ==
    [isro_geospatial |-> Run_ISRO_TERMS,
     nasa_live |-> {"nasa picture", "apod", "today", "current nasa"},
     space_weather |-> {"solar", "space weather", "flare", "sun activity", "today", "current"},
     asteroid_tracker |-> Run_ASTEROID_TERMS,
     mars_expert |-> {"mars", "red planet", "rover", "perseverance", "curiosity"},
     space_agency_expert |-> {"nasa", "esa", "spacex"},
     geospatial_expert |-> {"satellite", "geospatial", "remote sensing", "earth observation"}]

\* analyze_query_intent without its final else: nothing for a query that no
\* keyword list knows
Run_analyze_query_intent_no_default(ql) ==
    IF AnyIn(UNION {Run_KEYWORDS[k] : k \in DOMAIN Run_KEYWORDS}, ql)
    THEN [agent |-> "general_space", data_source |-> "knowledge_base"]
    ELSE [agent |-> "", data_source |-> ""]

\* IntelligentAstroGeo.analyze_query_intent, on query.lower()
Run_analyze_query_intent(ql) ==
    IF AnyIn(Run_KEYWORDS.isro_geospatial, ql)
    THEN [agent |-> "isro_geospatial", data_source |-> "vector_db"]
    ELSE IF AnyIn(Run_KEYWORDS.nasa_live, ql) /\ ~AnyIn({"solar", "mars"}, ql)
    THEN [agent |-> "nasa_live", data_source |-> "nasa_api"]
    ELSE IF AnyIn(Run_KEYWORDS.space_weather, ql) /\ In("solar", ql)
    THEN [agent |-> "space_weather", data_source |-> "nasa_api"]
    ELSE IF AnyIn(Run_KEYWORDS.asteroid_tracker, ql)
    THEN [agent |-> "asteroid_tracker", data_source |-> "nasa_api"]
    ELSE IF AnyIn(Run_KEYWORDS.mars_expert, ql)
    THEN [agent |-> "mars_expert", data_source |-> "mixed"]
    ELSE IF AnyIn(Run_KEYWORDS.space_agency_expert, ql)
            /\ ~AnyIn({"picture", "today", "current"}, ql)
    THEN [agent |-> "space_agency_expert", data_source |-> "knowledge_base"]
    ELSE IF AnyIn(Run_KEYWORDS.geospatial_expert, ql)
    THEN [agent |-> "geospatial_expert", data_source |-> "vector_db"]
    ELSE [agent |-> "general_space", data_source |-> "knowledge_base"]

\* the branch get_nasa_live_data takes: the endpoint it requests, or "none"
Run_live_endpoint(ql) ==
    IF AnyIn({"solar", "space weather", "flare", "sun"}, ql) THEN "flr"
    ELSE IF AnyIn({"apod", "picture", "image", "photo"}, ql) /\ ~In("mars", ql) THEN "apod"
    ELSE IF In("mars", ql) /\ AnyIn({"photo", "image", "rover", "picture"}, ql)
    THEN "mars_photos"
    ELSE IF AnyIn(Run_ASTEROID_TERMS, ql) THEN "neo"
    ELSE "none"

\* the text one NASA request ends in: data, the endpoint's "nothing to
\* report" text, or the diagnostic of the except clause
LiveSection(endpoint, outcome) ==
    IF outcome \in ProviderFailures THEN Section("failed", "live-data", endpoint)
    ELSE IF outcome = "empty" THEN Section("live_empty", "live-data", endpoint)
    ELSE Section("live", "live-data", endpoint)

\* get_nasa_live_data replacing a failed lookup's text by a general notice
Run_get_nasa_live_data_notice(endpoint, e) ==
    IF endpoint = "none"
    THEN [section |-> Section("clarify", "none", "none"), calls |-> <<>>]
    ELSE IF e[endpoint].status \in ProviderFailures
    THEN [section |-> Section("unavailable", "none", "none"), calls |-> <<endpoint>>]
    ELSE [section |-> LiveSection(endpoint, e[endpoint].status), calls |-> <<endpoint>>]

\* IntelligentAstroGeo.get_nasa_live_data: [section, calls]
Run_get_nasa_live_data(endpoint, e) ==
    IF endpoint = "none"
    THEN [section |-> Section("clarify", "none", "none"), calls |-> <<>>]
    ELSE [section |-> LiveSection(endpoint, e[endpoint].status), calls |-> <<endpoint>>]

\* any(k in result['content'].lower() for result in results for k in terms)
AnyMentions(docs, terms) ==
    \E i \in 1..Len(docs) : AnyIn(terms, Lower(docs[i].content))

\* process_isro_bhuvan_query without its check of the passages' content
Run_process_isro_bhuvan_query_any_passage(eng, bhuvan_in_query, e) ==
    LET found == Run_search_vector_db(eng, e["index"])
        calls == IF found.called THEN <<"index">> ELSE <<>>
    IN  IF found.docs # <<>>
        THEN [section |-> Section("kb", "knowledge-base", "index"), calls |-> calls]
        ELSE IF bhuvan_in_query
        THEN [section |-> Section("static", "fallback-knowledge", "static"), calls |-> calls]
        ELSE [section |-> Section("clarify", "none", "none"), calls |-> calls]

\* IntelligentAstroGeo.process_isro_bhuvan_query: [section, calls]
Run_process_isro_bhuvan_query(eng, bhuvan_in_query, e) ==
    LET found == Run_search_vector_db(eng, e["index"])
        calls == IF found.called THEN <<"index">> ELSE <<>>
    IN  IF found.docs # <<>> /\ AnyMentions(found.docs, {"bhuvan", "saphir", "ocm"})
        THEN [section |-> Section("kb", "knowledge-base", "index"), calls |-> calls]
        ELSE IF bhuvan_in_query
        THEN [section |-> Section("static", "fallback-knowledge", "static"), calls |-> calls]
        ELSE [section |-> Section("clarify", "none", "none"), calls |-> calls]

\* IntelligentAstroGeo.get_general_space_knowledge
Run_get_general_space_knowledge == Section("static", "fallback-knowledge", "static")

\* what process_query decides from the query text alone
Run_plan(q) ==
    LET ql == Lower(q)
    IN  [blank |-> IsBlank(q),
         intent |-> Run_analyze_query_intent(ql),
         endpoint |-> Run_live_endpoint(ql),
         wants_photo |-> AnyIn({"photo", "image", "picture"}, ql),
         bhuvan_in_query |-> In("bhuvan", ql)]

\* IntelligentAstroGeo.process_query after the plan, with the answers e
Run_process_query(eng, plan, use_nasa_api, e) ==
    IF plan.blank THEN Response(FALSE, <<Section("welcome", "none", "none")>>, <<>>)
    ELSE IF plan.intent.agent = "isro_geospatial"
    THEN LET r == Run_process_isro_bhuvan_query(eng, plan.bhuvan_in_query, e)
         IN  Response(FALSE, <<r.section>>, r.calls)
    ELSE IF plan.intent.agent \in {"nasa_live", "space_weather", "asteroid_tracker"}
            /\ use_nasa_api
    THEN LET r == Run_get_nasa_live_data(plan.endpoint, e)
         IN  Response(FALSE, <<r.section>>, r.calls)
    ELSE IF plan.intent.agent = "mars_expert"
    THEN IF use_nasa_api /\ plan.wants_photo
         THEN LET r == Run_get_nasa_live_data(plan.endpoint, e)
              IN  Response(FALSE, <<r.section>>, r.calls)
         ELSE Response(FALSE, <<Run_get_general_space_knowledge>>, <<>>)
    ELSE IF plan.intent.data_source = "vector_db"
    THEN LET found == Run_search_vector_db(eng, e["index"])
             calls == IF found.called THEN <<"index">> ELSE <<>>
         IN  IF found.docs # <<>>
             THEN Response(FALSE, <<Section("kb", "knowledge-base", "index")>>, calls)
             ELSE Response(FALSE, <<Run_get_general_space_knowledge>>, calls)
    ELSE Response(FALSE, <<Run_get_general_space_knowledge>>, <<>>)

\* Run_plan, tabulated
Run_plans == [q \in Queries["run"] |-> Run_plan(q)]

\* the sources process_query may ask for this plan
Run_sources(eng, plan, use_nasa_api) ==
    LET live == IF use_nasa_api /\ plan.endpoint # "none" THEN {plan.endpoint} ELSE {}
    IN  IF plan.blank THEN {}
        ELSE IF plan.intent.data_source = "vector_db"
        THEN IF eng.collection /\ eng.embedding_model THEN {"index"} ELSE {}
        ELSE IF plan.intent.agent \in {"nasa_live", "space_weather", "asteroid_tracker"}
        THEN live
        ELSE IF plan.intent.agent = "mars_expert" /\ plan.wants_photo THEN live
        ELSE {}


(***************************************************************************)
(* multi_agent_astrogeo.py: agents, QueryRouter, IntelligentAstroGeoSystem *)
(***************************************************************************)
\* IntelligentAstroGeoSystem.search_vector_db and VectorStore.search_vector_db:
\* the store is None when start-up found no collection or failed; the
\* store's own search has no except clause
Multi_search_vector_db(eng, answer) ==
    IF ~eng.vector_store
    THEN [docs |-> <<>>, called |-> FALSE, raised |-> FALSE]
    ELSE IF answer.status = "raise"
    THEN [docs |-> <<>>, called |-> TRUE, raised |-> TRUE]
    ELSE [docs |-> AboveFloor(answer.docs, RunFloor), called |-> TRUE, raised |-> FALSE]

\* the agents in the order of IntelligentAstroGeoSystem.agents
Multi_agents == <<"ISROGeospatialAgent", "NASALiveDataAgent", "SpaceWeatherAgent", "GeospatialAgent">>

\* ISROGeospatialAgent.can_handle, NASALiveDataAgent.can_handle,
\* SpaceWeatherAgent.can_handle, GeospatialAgent.can_handle
Multi_can_handle(agent, ql) ==
    IF agent = "ISROGeospatialAgent"
    THEN AnyIn({"isro", "bhuvan", "saphir", "ocm", "chandrayaan", "mangalyaan",
                "indian space", "aryabhatta"}, ql)
    ELSE IF agent = "NASALiveDataAgent"
    THEN /\ AnyIn({"today", "current", "now", "recent", "live", "latest"}, ql)
         /\ AnyIn({"nasa", "apod", "picture", "mars rover", "solar", "asteroid"}, ql)
    ELSE IF agent = "SpaceWeatherAgent"
    THEN AnyIn({"space weather", "solar wind", "geomagnetic", "aurora", "solar storm"}, ql)
    ELSE AnyIn({"satellite", "imagery", "remote sensing", "gis", "earth observation",
                "landsat", "sentinel"}, ql)

\* QueryRouter.space_keywords
Multi_space_keywords ==
    {"space", "astronomy", "planet", "star", "galaxy", "nasa", "isro", "esa",
     "satellite", "rocket", "mars", "moon", "sun", "solar", "asteroid",
     "comet", "telescope", "rover", "spacecraft", "orbit", "mission",
     "apollo", "chandrayaan", "bhuvan", "saphir", "ocm", "cosmic",
     "universe", "celestial", "nebula", "meteor", "spacex", "apod"}

\* QueryRouter.is_space_query
Multi_is_space_query(ql) == AnyIn(Multi_space_keywords, ql)

RECURSIVE FirstAgent(_, _, _)
FirstAgent(agents, i, ql) ==
    IF i > Len(agents) THEN "None"
    ELSE IF Multi_can_handle(agents[i], ql) THEN agents[i]
    ELSE FirstAgent(agents, i + 1, ql)

\* route_query without its is_space_query gate
Multi_route_query_ungated(ql) ==
    LET a == FirstAgent(Multi_agents, 1, ql)
    IN  IF a # "None" THEN [agent |-> a, message |-> "None"]
        ELSE [agent |-> "None", message |-> "clarify"]

\* QueryRouter.route_query: [agent, message]
Multi_route_query(ql) ==
    IF ~Multi_is_space_query(ql) THEN [agent |-> "None", message |-> "redirect"]
    ELSE LET a == FirstAgent(Multi_agents, 1, ql)
         IN  IF a # "None" THEN [agent |-> a, message |-> "None"]
             ELSE [agent |-> "None", message |-> "clarify"]

\* the branch NASALiveDataAgent.process takes
Multi_live_endpoint(ql) ==
    IF AnyIn({"solar", "space weather", "flare", "sun"}, ql) THEN "flr"
    ELSE IF AnyIn({"apod", "picture", "image"}, ql) /\ ~In("mars", ql) THEN "apod"
    ELSE IF In("mars", ql) /\ AnyIn({"rover", "photo", "image"}, ql) THEN "mars_photos"
    ELSE IF AnyIn({"asteroid", "space rock"}, ql) THEN "neo"
    ELSE "none"

\* NASALiveDataAgent.process: [raised, section, calls]
Multi_NASALiveDataAgent_process(endpoint, e) ==
    IF endpoint = "none"
    THEN [raised |-> FALSE, section |-> Section("clarify", "none", "none"), calls |-> <<>>]
    ELSE [raised |-> FALSE, section |-> LiveSection(endpoint, e[endpoint].status),
          calls |-> <<endpoint>>]

\* ISROGeospatialAgent._get_fallback_knowledge
Multi_get_fallback_knowledge(ql) ==
    IF In("bhuvan", ql) \/ In("isro", ql)
    THEN Section("static", "fallback-knowledge", "static")
    ELSE Section("clarify", "none", "none")

\* ISROGeospatialAgent.process: [raised, section, calls]
Multi_ISROGeospatialAgent_process(eng, ql, e) ==
    LET found == Multi_search_vector_db(eng, e["index"])
        calls == IF found.called THEN <<"index">> ELSE <<>>
    IN  IF found.raised
        THEN [raised |-> TRUE, section |-> Section("none", "none", "none"), calls |-> calls]
        ELSE IF found.docs # <<>>
                /\ AnyMentions(found.docs, {"isro", "bhuvan", "saphir", "ocm"})
        THEN [raised |-> FALSE, section |-> Section("kb", "knowledge-base", "index"),
              calls |-> calls]
        ELSE [raised |-> FALSE, section |-> Multi_get_fallback_knowledge(ql), calls |-> calls]

\* agent.process(query)
Multi_agent_process(agent, eng, plan, e) ==
    IF agent = "ISROGeospatialAgent" THEN Multi_ISROGeospatialAgent_process(eng, plan.ql, e)
    ELSE IF agent = "NASALiveDataAgent" THEN Multi_NASALiveDataAgent_process(plan.endpoint, e)
    ELSE [raised |-> FALSE, section |-> Section("static", "fallback-knowledge", "static"),
          calls |-> <<>>]

\* what process_query decides from the query text alone
Multi_plan(q) ==
    LET ql == Lower(q)
    IN  [blank |-> IsBlank(q),
         ql |-> ql,
         routing_result |-> Multi_route_query(ql),
         endpoint |-> Multi_live_endpoint(ql)]

\* IntelligentAstroGeoSystem.process_query after the plan, with the answers e
Multi_process_query(eng, plan, use_nasa_api, e) ==
    IF plan.blank THEN Response(FALSE, <<Section("welcome", "none", "none")>>, <<>>)
    ELSE IF plan.routing_result.agent = "None"
    THEN Response(FALSE, <<Section(plan.routing_result.message, "none", "none")>>, <<>>)
    ELSE LET r == Multi_agent_process(plan.routing_result.agent, eng, plan, e)
         IN  IF r.raised
             THEN Response(FALSE, <<Section("error", "none", "none")>>, r.calls)
             ELSE Response(FALSE, <<r.section>>, r.calls)

\* Multi_plan, tabulated
Multi_plans == [q \in Queries["multi"] |-> Multi_plan(q)]

\* the sources process_query may ask for this plan
Multi_sources(eng, plan) ==
    IF plan.blank THEN {}
    ELSE IF plan.routing_result.agent = "ISROGeospatialAgent"
    THEN IF eng.vector_store THEN {"index"} ELSE {}
    ELSE IF plan.routing_result.agent = "NASALiveDataAgent" /\ plan.endpoint # "none"
    THEN {plan.endpoint}
    ELSE {}


(***************************************************************************)
(* agents/astro_intel.py: AstroIntelAgent                                  *)
(***************************************************************************)
\* a get_* method without its except clause
AstroIntel_get_unguarded(endpoint, outcome) ==
    [raised |-> outcome \in ProviderFailures, section |-> LiveSection(endpoint, outcome)]

\* AstroIntelAgent.get_nasa_apod / get_solar_activity / get_asteroid_data:
\* one request inside try/except; [raised, section]
AstroIntel_get(endpoint, outcome) ==
    [raised |-> FALSE, section |-> LiveSection(endpoint, outcome)]

\* the keyword lists of analyze_query, by the lookup each selects
AstroIntel_TERMS ==
    [apod |-> {"apod", "picture", "image", "today", "daily"},
     flr |-> {"solar", "sun", "flare", "space weather"},
     neo |-> {"asteroid", "space rock", "near earth"}]

\* analyze_query written as an if/elif chain: the first match only
AstroIntel_lookups_first_only(ql) ==
    IF AnyIn(AstroIntel_TERMS.apod, ql) THEN <<"apod">>
    ELSE IF AnyIn(AstroIntel_TERMS.flr, ql) THEN <<"flr">>
    ELSE IF AnyIn(AstroIntel_TERMS.neo, ql) THEN <<"neo">>
    ELSE IF AnyIn({"nasa", "space", "astronomy"}, ql) THEN <<"apod">>
    ELSE <<>>

\* analyze_query without its default lookup
AstroIntel_lookups_no_default(ql) ==
    (IF AnyIn(AstroIntel_TERMS.apod, ql) THEN <<"apod">> ELSE <<>>)
        \o (IF AnyIn(AstroIntel_TERMS.flr, ql) THEN <<"flr">> ELSE <<>>)
        \o (IF AnyIn(AstroIntel_TERMS.neo, ql) THEN <<"neo">> ELSE <<>>)

\* the lookups analyze_query selects, in the order of its if statements
AstroIntel_lookups(ql) ==
    LET apod == IF AnyIn(AstroIntel_TERMS.apod, ql) THEN <<"apod">> ELSE <<>>
        flr == IF AnyIn(AstroIntel_TERMS.flr, ql) THEN <<"flr">> ELSE <<>>
        neo == IF AnyIn(AstroIntel_TERMS.neo, ql) THEN <<"neo">> ELSE <<>>
        specific == apod \o flr \o neo
    IN  IF specific = <<>> /\ AnyIn({"nasa", "space", "astronomy"}, ql)
        THEN <<"apod">>
        ELSE specific

AstroIntel_plan(q) == [lookups |-> AstroIntel_lookups(Lower(q))]

AstroIntel_plans == [q \in Queries["astro_intel"] |-> AstroIntel_plan(q)]

\* the loop of analyze_query over the selected lookups: response_parts
RECURSIVE AstroIntel_parts(_, _, _)
AstroIntel_parts(lookups, e, done) ==
    IF lookups = <<>> THEN done
    ELSE LET endpoint == Head(lookups)
             r == AstroIntel_get(endpoint, e[endpoint].status)
             calls == Append(done.calls, endpoint)
         IN  IF r.raised THEN Response(TRUE, <<>>, calls)
             ELSE AstroIntel_parts(Tail(lookups), e,
                                   Response(FALSE, Append(done.sections, r.section), calls))

\* AstroIntelAgent.analyze_query
AstroIntel_analyze_query(plan, e) ==
    LET r == AstroIntel_parts(plan.lookups, e, NoResponse)
    IN  IF r.raised THEN r
        ELSE IF r.sections # <<>> THEN r
        ELSE Response(FALSE, <<Section("clarify", "none", "none")>>, <<>>)

AstroIntel_sources(plan) == SeqToSet(plan.lookups)

(***************************************************************************)
(* simple_final_astrogeo_app.py: SimpleFinalAstroGeoApp                    *)
(***************************************************************************)
\* the keyword lists of the live-data chain, by the tool each selects
Simple_TERMS ==
    [apod |-> {"apod", "picture", "image", "photo", "today"},
     mars_photos |-> {"mars", "rover", "curiosity", "red planet"},
     neo |-> {"asteroid", "neo", "near earth"},
     flr |-> {"solar", "flare", "sun", "space weather"}]

\* the branch of the live-data if/elif chain of analyze_space_query
Simple_live_endpoint(ql) ==
    IF AnyIn(Simple_TERMS.apod, ql) THEN "apod"
    ELSE IF AnyIn(Simple_TERMS.mars_photos, ql) THEN "mars_photos"
    ELSE IF AnyIn(Simple_TERMS.neo, ql) THEN "neo"
    ELSE IF AnyIn(Simple_TERMS.flr, ql) THEN "flr"
    ELSE IF In("nasa", ql) /\ ~AnyIn({"apod", "mars", "asteroid", "solar"}, ql) THEN "apod"
    ELSE "none"

\* SimpleFinalAstroGeoApp.get_space_knowledge: is the dict non-empty
Simple_get_space_knowledge(ql) == AnyIn({"nasa", "isro", "mars"}, ql)

Simple_plan(q) ==
    LET ql == Lower(q)
    IN  [blank |-> IsBlank(q),
         endpoint |-> Simple_live_endpoint(ql),
         space_knowledge |-> Simple_get_space_knowledge(ql)]

Simple_plans == [q \in Queries["simple"] |-> Simple_plan(q)]

\* nasa_apod_tool / nasa_mars_tool / nasa_asteroids_tool / nasa_solar_activity_tool
Simple_nasa_tool(endpoint, outcome) == LiveSection(endpoint, outcome)

\* SimpleFinalAstroGeoApp.analyze_space_query
Simple_analyze_space_query(plan, use_nasa_api, e) ==
    IF plan.blank THEN Response(FALSE, <<Section("welcome", "none", "none")>>, <<>>)
    ELSE LET asked == use_nasa_api /\ plan.endpoint # "none"
             live == IF asked
                     THEN <<Simple_nasa_tool(plan.endpoint, e[plan.endpoint].status)>>
                     ELSE <<>>
             known == IF plan.space_knowledge
                      THEN <<Section("static", "fallback-knowledge", "static")>>
                      ELSE <<>>
             summary == <<Section("status", "none", "none")>>
         IN  Response(FALSE, live \o known \o summary,
                      IF asked THEN <<plan.endpoint>> ELSE <<>>)

Simple_sources(plan, use_nasa_api) ==
    IF ~plan.blank /\ use_nasa_api /\ plan.endpoint # "none" THEN {plan.endpoint} ELSE {}

(***************************************************************************)
(* final_astrogeo_app.py: FinalAstroGeoApp                                 *)
(***************************************************************************)
\* score > 0.2, in tenths
FinalFloor == 2

\* FinalAstroGeoApp.search_vector_db: [docs, called]
Final_search_vector_db(eng, answer) ==
    IF ~eng.collection THEN [docs |-> <<>>, called |-> FALSE]
    ELSE IF ~eng.embedding_model THEN [docs |-> <<>>, called |-> FALSE]
    ELSE IF answer.status = "raise" THEN [docs |-> <<>>, called |-> TRUE]
    ELSE [docs |-> AboveFloor(answer.docs, FinalFloor), called |-> TRUE]

\* FinalAstroGeoApp.analyze_with_crewai: [text, called]
Final_analyze_with_crewai(eng, answer) ==
    IF ~eng.crewai_available \/ ~eng.crew THEN [text |-> FALSE, called |-> FALSE]
    ELSE IF answer.status = "raise" THEN [text |-> FALSE, called |-> TRUE]
    ELSE [text |-> TRUE, called |-> TRUE]

\* FinalAstroGeoApp.get_space_knowledge: is the dict non-empty
Final_get_space_knowledge(ql) == AnyIn({"nasa", "isro", "mars"}, ql)

Final_plan(q) ==
    [blank |-> IsBlank(q), space_knowledge |-> Final_get_space_knowledge(Lower(q))]

Final_plans == [q \in Queries["final"] |-> Final_plan(q)]

\* FinalAstroGeoApp.analyze_space_query
Final_analyze_space_query(eng, plan, use_nasa_agents, e) ==
    IF plan.blank THEN Response(FALSE, <<Section("welcome", "none", "none")>>, <<>>)
    ELSE LET crewai == IF use_nasa_agents /\ eng.crewai_available
                       THEN Final_analyze_with_crewai(eng, e["crew"])
                       ELSE [text |-> FALSE, called |-> FALSE]
             found == Final_search_vector_db(eng, e["index"])
             agents == IF crewai.text THEN <<Section("live", "live-data", "crew")>> ELSE <<>>
             context == IF found.docs # <<>>
                        THEN <<Section("kb", "knowledge-base", "index")>> ELSE <<>>
             known == IF plan.space_knowledge
                      THEN <<Section("static", "fallback-knowledge", "static")>>
                      ELSE <<>>
             summary == <<Section("status", "none", "none")>>
         IN  Response(FALSE, agents \o context \o known \o summary,
                      (IF crewai.called THEN <<"crew">> ELSE <<>>)
                          \o (IF found.called THEN <<"index">> ELSE <<>>))

Final_sources(eng, plan, use_nasa_agents) ==
    IF plan.blank THEN {}
    ELSE (IF use_nasa_agents /\ eng.crewai_available /\ eng.crew THEN {"crew"} ELSE {})
             \cup (IF eng.collection /\ eng.embedding_model THEN {"index"} ELSE {})

(***************************************************************************)
(* frontend/gradio_app.py: AstroGeoGradioApp                               *)
(***************************************************************************)
\* VectorStoreManager.similarity_search (astrogeo/utils/vector_store.py):
\* passages above the floor, an empty list when the index fails
Gradio_similarity_search(answer) ==
    IF answer.status = "raise" THEN <<>> ELSE AboveFloor(answer.docs, RunFloor)

\* AstroGeoGradioApp.analyze_query_intent
Gradio_analyze_query_intent(ql) ==
    IF AnyIn({"weather", "temperature", "rain", "rainfall", "climate", "humidity",
              "precipitation"}, ql)
    THEN "geospatial_analysis"
    ELSE IF AnyIn({"nasa", "apod", "mars rover", "solar activity", "asteroid",
                   "space picture"}, ql)
    THEN "astronomical_analysis"
    ELSE IF AnyIn({"isro", "bhuvan", "chandrayaan", "mangalyaan", "indian space"}, ql)
    THEN "data_harvesting"
    ELSE "astronomical_analysis"

\* [a-zA-Z\s]
IsNameChar(c) == IsLetter(c) \/ c \in Whitespace

\* the last index of the run of [a-zA-Z\s] that holds index i
RECURSIVE NameEnd(_, _)
NameEnd(s, i) ==
    IF i < Len(s) /\ IsNameChar(CharAt(s, i + 1)) THEN NameEnd(s, i + 1) ELSE i

\* re.search(r'<term> in ([a-zA-Z\s]+)', query_lower).group(1): <<group>>,
\* or <<>> without a match
Gradio_search(term, ql) ==
    LET lead == term \o " in "
        starts == {i \in 1..(Len(ql) - Len(lead)) :
                      /\ SubSeq(ql, i, i + Len(lead) - 1) = lead
                      /\ IsNameChar(CharAt(ql, i + Len(lead)))}
        j == Min(starts) + Len(lead)
    IN  IF starts = {} THEN <<>> ELSE <<SubSeq(ql, j, NameEnd(ql, j))>>

\* str.title() of a lower-case text, from index i
RECURSIVE TitleFrom(_, _)
TitleFrom(s, i) ==
    IF i > Len(s) THEN ""
    ELSE LET c == CharAt(s, i)
             first == i = 1 \/ ~IsLetter(CharAt(s, i - 1))
             upper == {u \in DOMAIN UpperToLower : UpperToLower[u] = c}
         IN  (IF first /\ upper # {} THEN CHOOSE u \in upper : TRUE ELSE c)
                 \o TitleFrom(s, i + 1)

\* the loop of extract_location_from_query over location_patterns
RECURSIVE Gradio_first_location(_, _)
Gradio_first_location(terms, ql) ==
    IF terms = <<>> THEN <<>>
    ELSE IF Gradio_search(Head(terms), ql) # <<>>
    THEN <<TitleFrom(Strip(Gradio_search(Head(terms), ql)[1]), 1)>>
    ELSE Gradio_first_location(Tail(terms), ql)

\* AstroGeoGradioApp.extract_location_from_query
Gradio_extract_location_from_query(q) ==
    LET found == Gradio_first_location(<<"weather", "rainfall", "temperature", "climate">>,
                                       Lower(q))
    IN  IF found # <<>> THEN found[1] ELSE "Delhi"

\* location of process_query; "" stands for None (and for the empty text,
\* which the code treats alike)
Gradio_plan(q) ==
    [blank |-> IsBlank(q),
     intent |-> Gradio_analyze_query_intent(Lower(q)),
     extracts |-> In("weather", Lower(q)) \/ In("rain", Lower(q)),
     location |-> IF In("weather", Lower(q)) \/ In("rain", Lower(q))
                  THEN Gradio_extract_location_from_query(q) ELSE ""]

Gradio_plans == [q \in Queries["gradio"] |-> Gradio_plan(q)]

\* AstroGeoGradioApp.process_query
Gradio_process_query(eng, plan, use_live_apis, e) ==
    IF plan.blank THEN Response(FALSE, <<Section("welcome", "none", "none")>>, <<>>)
    ELSE IF eng.crew /\ e["crew"].status = "raise"
    THEN Response(FALSE, <<Section("error", "none", "none")>>, <<"crew">>)
    ELSE LET agents == IF eng.crew THEN <<Section("live", "live-data", "crew")>> ELSE <<>>
             context_results == IF eng.vector_store
                                THEN Gradio_similarity_search(e["index"]) ELSE <<>>
             context == IF context_results # <<>>
                        THEN <<Section("kb", "knowledge-base", "index")>> ELSE <<>>
         IN  Response(FALSE, agents \o context,
                      (IF eng.crew THEN <<"crew">> ELSE <<>>)
                          \o (IF eng.vector_store THEN <<"index">> ELSE <<>>))

\* what extract_location_from_query did for the request, and the location
\* the crew was handed ('location': location or 'global')
Gradio_tool_runs(eng, plan) ==
    IF plan.blank \/ ~plan.extracts THEN <<>>
    ELSE <<ToolRun("extract_location_from_query", <<>>, plan.location, <<>>,
                   IF ~eng.crew THEN <<>>
                   ELSE IF plan.location = "" THEN <<"global">>
                   ELSE <<plan.location>>,
                   {})>>

Gradio_sources(eng, plan) ==
    IF plan.blank THEN {}
    ELSE (IF eng.crew THEN {"crew"} ELSE {})
             \cup (IF eng.vector_store THEN {"index"} ELSE {})


(***************************************************************************)
(* tools/weather_api.py: IntelligentWeatherTool, IntelligentAirQualityTool *)
(* The query texts hold letters, blanks and , - ? ! only.                  *)
(***************************************************************************)
\* w matches at index i of s, letter case ignored (re.IGNORECASE)
StartsWithAt(s, i, w) ==
    /\ i + Len(w) - 1 <= Len(s)
    /\ Lower(SubSeq(s, i, i + Len(w) - 1)) = w

\* \b before a letter at index i
WordStartsAt(s, i) == i = 1 \/ ~IsWordChar(CharAt(s, i - 1))

\* (?:\s+including|\s+with|\?|$) matches at index k
Weather_terminator_at(s, k) ==
    \/ k > Len(s)
    \/ CharAt(s, k) = "?"
    \/ LET j == SkipSpaces(s, k)
       IN  j > k /\ \E w \in {"including", "with"} : StartsWithAt(s, j, w)

\* ([a-zA-Z][a-zA-Z\s,-]+?)(?:...) tried at index j: the lengths the group
\* can take
Weather_group_lengths(s, j) ==
    {n \in 2..(Len(s) - j + 1) :
        /\ \A k \in (j + 1)..(j + n - 1) : IsLocationChar(CharAt(s, k))
        /\ Weather_terminator_at(s, j + n)}

\* \bword\s+(group)(?:...) tried at index i: the text of the group, or ""
Weather_match_at(word, s, i) ==
    LET j == SkipSpaces(s, i + Len(word))
    IN  IF /\ StartsWithAt(s, i, word)
           /\ WordStartsAt(s, i)
           /\ j > i + Len(word)
           /\ j <= Len(s)
           /\ IsLetter(CharAt(s, j))
           /\ Weather_group_lengths(s, j) # {}
        THEN SubSeq(s, j, j + Min(Weather_group_lengths(s, j)) - 1)
        ELSE ""

\* re.search(pattern, query, re.IGNORECASE): what the pattern of "for" or of
\* "in" appends to potential_locations
Weather_search(word, s) ==
    LET starts == {i \in 1..Len(s) : Weather_match_at(word, s, i) # ""}
    IN  IF starts = {} THEN <<>>
        ELSE <<Strip(Weather_match_at(word, s, Min(starts)))>>

Weather_LEADING_TERMS == {"weather", "climate", "analysis", "temperature"}

\* ^([a-zA-Z][a-zA-Z\s,-]+?)\s+(?:weather|climate|analysis|temperature):
\* the lengths the group can take
Weather_start_lengths(s) ==
    {n \in 2..Len(s) :
        /\ IsLetter(CharAt(s, 1))
        /\ \A k \in 2..n : IsLocationChar(CharAt(s, k))
        /\ LET j == SkipSpaces(s, n + 1)
           IN  j > n + 1 /\ \E w \in Weather_LEADING_TERMS : StartsWithAt(s, j, w)}

Weather_start_match(s) ==
    IF Weather_start_lengths(s) = {} THEN <<>>
    ELSE <<Strip(SubSeq(s, 1, Min(Weather_start_lengths(s))))>>

\* the last index of the run of letters that holds index i
RECURSIVE LettersEnd(_, _)
LettersEnd(s, i) ==
    IF i < Len(s) /\ IsLetter(CharAt(s, i + 1)) THEN LettersEnd(s, i + 1) ELSE i

\* [A-Z][a-zA-Z]+ at index i
CapitalizedAt(s, i) ==
    i + 1 <= Len(s) /\ IsUpper(CharAt(s, i)) /\ IsLetter(CharAt(s, i + 1))

\* (?:\s+[A-Z][a-zA-Z]+)* from the end e of a capitalized word: where the
\* match ends
RECURSIVE Weather_caps_end(_, _)
Weather_caps_end(s, e) ==
    LET j == SkipSpaces(s, e + 1)
    IN  IF j > e + 1 /\ CapitalizedAt(s, j)
        THEN Weather_caps_end(s, LettersEnd(s, j))
        ELSE e

\* re.findall(r'\b[A-Z][a-zA-Z]+(?:\s+[A-Z][a-zA-Z]+)*\b', query) from index i
RECURSIVE Weather_caps_words(_, _)
Weather_caps_words(s, i) ==
    IF i > Len(s) THEN <<>>
    ELSE IF WordStartsAt(s, i) /\ CapitalizedAt(s, i)
    THEN LET e == Weather_caps_end(s, LettersEnd(s, i))
         IN  <<SubSeq(s, i, e)>> \o Weather_caps_words(s, e + 1)
    ELSE Weather_caps_words(s, i + 1)

Weather_STOPLIST ==
    {"weather", "analysis", "environmental", "air", "quality", "temperature", "climate"}

\* the filter on the capitalized words
RECURSIVE Weather_not_stopped(_)
Weather_not_stopped(words) ==
    IF words = <<>> THEN <<>>
    ELSE IF Lower(Head(words)) \notin Weather_STOPLIST
    THEN <<Head(words)>> \o Weather_not_stopped(Tail(words))
    ELSE Weather_not_stopped(Tail(words))

\* potential_locations with the pattern of "in" ahead of the pattern of "for"
Weather_potential_locations_in_first(q) ==
    Weather_search("in", q) \o Weather_search("for", q) \o Weather_start_match(q)
        \o Weather_not_stopped(Weather_caps_words(q, 1))

\* potential_locations of _extract_and_validate_location
Weather_potential_locations(q) ==
    Weather_search("for", q) \o Weather_search("in", q) \o Weather_start_match(q)
        \o Weather_not_stopped(Weather_caps_words(q, 1))

\* re.sub(r'\s+', ' ', s) from index i
RECURSIVE CollapseFrom(_, _)
CollapseFrom(s, i) ==
    IF i > Len(s) THEN ""
    ELSE IF CharAt(s, i) \in Whitespace THEN " " \o CollapseFrom(s, SkipSpaces(s, i))
    ELSE CharAt(s, i) \o CollapseFrom(s, i + 1)

\* location_clean of _validate_location_with_geocoding_api
Weather_location_clean(location_candidate) == CollapseFrom(Strip(location_candidate), 1)

\* the places the geocoding service knows, by lower-case name: what
\* locations[0] holds when the service finds one
Gazetteer ==
    ("mumbai" :> [name |-> "Mumbai", country |-> "IN"])
        @@ ("delhi" :> [name |-> "Delhi", country |-> "IN"])
        @@ ("paris" :> [name |-> "Paris", country |-> "FR"])

\* what the geocoding service answers to the validation of one candidate:
\* to the request for the candidate and, when that one is made, to the
\* request for "<candidate>, India"; each finds a place, finds none, or
\* fails (no connection, error status, unreadable body)
GeoAnswer(direct, india) == [direct |-> direct, india |-> india]

\* the validation taking the candidate for the location when the request fails
Weather_validate_location_with_geocoding_api_guess(location_candidate, answer) ==
    LET location_clean == Weather_location_clean(location_candidate)
        best_match == Gazetteer[Lower(location_clean)]
    IN  IF answer.direct = "found"
        THEN [location |-> best_match.name \o "," \o best_match.country,
              requests |-> <<location_clean>>]
        ELSE IF answer.direct = "error"
        THEN [location |-> location_clean, requests |-> <<location_clean>>]
        ELSE [location |-> IF answer.india = "found" THEN best_match.name \o ",IN" ELSE "",
              requests |-> IF In(",", location_clean) THEN <<location_clean>>
                           ELSE <<location_clean, location_clean \o ", India">>]

\* the validation asking again with ", India" also after a failed request
Weather_validate_location_with_geocoding_api_retry_always(location_candidate, answer) ==
    LET location_clean == Weather_location_clean(location_candidate)
        best_match == Gazetteer[Lower(location_clean)]
        india == location_clean \o ", India"
    IN  IF answer.direct = "found"
        THEN [location |-> best_match.name \o "," \o best_match.country,
              requests |-> <<location_clean>>]
        ELSE IF ~In(",", location_clean)
        THEN [location |-> IF answer.india = "found"
                           THEN best_match.name \o ",IN" ELSE "",
              requests |-> <<location_clean, india>>]
        ELSE [location |-> "", requests |-> <<location_clean>>]

\* IntelligentWeatherTool._validate_location_with_geocoding_api:
\* [location, requests]; "" stands for None
Weather_validate_location_with_geocoding_api(location_candidate, answer) ==
    LET location_clean == Weather_location_clean(location_candidate)
        best_match == Gazetteer[Lower(location_clean)]
        india == location_clean \o ", India"
    IN  IF answer.direct = "error"
        THEN [location |-> "", requests |-> <<location_clean>>]
        ELSE IF answer.direct = "found"
        THEN [location |-> best_match.name \o "," \o best_match.country,
              requests |-> <<location_clean>>]
        ELSE IF ~In(",", location_clean)
        THEN [location |-> IF answer.india = "found"
                           THEN best_match.name \o ",IN" ELSE "",
              requests |-> <<location_clean, india>>]
        ELSE [location |-> "", requests |-> <<location_clean>>]

\* the answers the geocoding service can give for one candidate
GeocodeAnswers(location_candidate) ==
    LET location_clean == Weather_location_clean(location_candidate)
        known == Lower(location_clean) \in DOMAIN Gazetteer
        found == IF known THEN {"found"} ELSE {}
    IN  {GeoAnswer(d, "unused") : d \in {"error"} \cup found}
            \cup (IF In(",", location_clean) THEN {GeoAnswer("empty", "unused")}
                  ELSE {GeoAnswer("empty", i) : i \in {"empty", "error"} \cup found})

\* the loop of _extract_and_validate_location over potential_locations
RECURSIVE Weather_first_validated(_, _)
Weather_first_validated(potential_locations, answers) ==
    IF potential_locations = <<>> THEN [location |-> "", requests |-> <<>>]
    ELSE LET validated == Weather_validate_location_with_geocoding_api(
                              Head(potential_locations), Head(answers))
             rest == Weather_first_validated(Tail(potential_locations), Tail(answers))
         IN  IF validated.location # "" THEN validated
             ELSE [location |-> rest.location,
                   requests |-> validated.requests \o rest.requests]

\* the extraction asking the geocoding service for the first candidate even
\* with the placeholder key
Weather_extract_and_validate_location_always_asks(eng, potential_locations, answers) ==
    IF eng.demo_key
    THEN [location |-> IF potential_locations = <<>> THEN ""
                       ELSE Head(potential_locations),
          requests |-> IF potential_locations = <<>> THEN <<>>
                       ELSE <<Weather_location_clean(Head(potential_locations))>>]
    ELSE Weather_first_validated(potential_locations, answers)

\* IntelligentWeatherTool._extract_and_validate_location, given
\* potential_locations: [location, requests]
Weather_extract_and_validate_location(eng, potential_locations, answers) ==
    IF eng.demo_key
    THEN [location |-> IF potential_locations = <<>> THEN ""
                       ELSE Head(potential_locations),
          requests |-> <<>>]
    ELSE Weather_first_validated(potential_locations, answers)

\* the answers of the geocoding service to one extraction: one per candidate
\* that is validated
RECURSIVE GeocodeRuns(_)
GeocodeRuns(potential_locations) ==
    IF potential_locations = <<>> THEN {<<>>}
    ELSE LET c == Head(potential_locations)
             Validates(a) ==
                 Weather_validate_location_with_geocoding_api(c, a).location # ""
         IN  {<<a>> : a \in {b \in GeocodeAnswers(c) : Validates(b)}}
                 \cup {<<a>> \o r : a \in {b \in GeocodeAnswers(c) : ~Validates(b)},
                                    r \in GeocodeRuns(Tail(potential_locations))}

(***************************************************************************)
(* agents/geospatial_expert.py: IntelligentGeospatialAgent                 *)
(***************************************************************************)
\* IntelligentGeospatialAgent._classify_environmental_query
GeoExpert_classify_environmental_query(ql) ==
    IF AnyIn({"weather", "temperature", "climate", "rain", "rainfall", "humidity", "wind"}, ql)
    THEN "weather_intelligence"
    ELSE IF AnyIn({"air quality", "aqi", "pollution", "pm2.5", "pm10"}, ql)
    THEN "air_quality_intelligence"
    ELSE IF AnyIn({"comprehensive", "environmental analysis", "complete assessment"}, ql)
    THEN "comprehensive_environmental"
    ELSE "general_environmental"

\* IntelligentWeatherTool._run / IntelligentAirQualityTool._run
\* (tools/weather_api.py): the text the tool returns.  Every path of _run is
\* inside try/except, so [raised] is FALSE.  The outcome is "no_location"
\* when the extraction returned None, else what the retrieval of the data met.
GeoExpert_tool_run(tool, outcome) ==
    [raised |-> FALSE,
     section |-> IF outcome = "no_location" THEN Section("clarify", "none", tool)
                 ELSE IF outcome \in ProviderFailures THEN Section("failed", "live-data", tool)
                 ELSE IF outcome = "empty"
                 THEN (IF tool = "airq_tool" THEN Section("live_empty", "live-data", tool)
                       ELSE Section("failed", "live-data", tool))
                 ELSE Section("live", "live-data", tool)]

\* the answers of the geocoding service to the extraction of one tool
GeoExpert_geocode(tool, e) ==
    IF tool = "weather_tool" THEN e["geocode"] ELSE e["airq_geocode"]

\* location = self._extract_and_validate_location(query), in either tool
GeoExpert_location(tool, eng, plan, e) ==
    Weather_extract_and_validate_location(eng, plan.candidates, GeoExpert_geocode(tool, e))

\* _run going on to the retrieval of the data without a location
GeoExpert_outcome_unchecked(tool, eng, plan, e) == e[tool].status

\* _run: "if not location: return ..." before the retrieval of the data
GeoExpert_outcome(tool, eng, plan, e) ==
    IF GeoExpert_location(tool, eng, plan, e).location = "" THEN "no_location"
    ELSE e[tool].status

\* what the text of a tool states about its confidence: the text of a
\* successful retrieval ends with "Location validated and confirmed"
\* (weather) or "Location Confirmed ... Data Verification" (air quality)
Weather_text_labels(outcome) == IF outcome = "ok" THEN {"validated"} ELSE {}

\* what the report of the agent states around the text of the tool, whatever
\* the text: "Data confidence: High" and "API-validated geographic
\* confirmation" (weather, comprehensive), "Intelligent geographic
\* validation" (air quality)
GeoExpert_report_labels(analysis_type) ==
    IF analysis_type \in {"weather_intelligence", "comprehensive_environmental"}
    THEN {"High", "validated"}
    ELSE IF analysis_type = "air_quality_intelligence" THEN {"validated"}
    ELSE {}

\* the confidence statements shown with the result of one tool
GeoExpert_labels(tool, analysis_type, outcome) ==
    Weather_text_labels(outcome) \cup GeoExpert_report_labels(analysis_type)

\* _run passing on the candidate it took from the query
GeoExpert_tool_trace_raw(tool, eng, plan, e) ==
    LET found == GeoExpert_location(tool, eng, plan, e)
    IN  ToolRun(tool, plan.candidates, found.location, found.requests,
                IF found.location = "" THEN <<>> ELSE <<plan.candidates[1]>>,
                GeoExpert_labels(tool, plan.analysis_type,
                                 GeoExpert_outcome(tool, eng, plan, e)))

\* what _run of one tool did for the request
GeoExpert_tool_trace(tool, eng, plan, e) ==
    LET found == GeoExpert_location(tool, eng, plan, e)
    IN  ToolRun(tool, plan.candidates, found.location, found.requests,
                IF found.location = "" THEN <<>> ELSE <<found.location>>,
                GeoExpert_labels(tool, plan.analysis_type,
                                 GeoExpert_outcome(tool, eng, plan, e)))

\* _process_weather_intelligence / _process_air_quality_intelligence: the
\* text of the tool inside a report that states "Data confidence: High" and
\* "API-validated geographic confirmation" (weather), "Intelligent location
\* detection and validation" (air quality), whatever the text is
GeoExpert_process_one(tool, eng, plan, e) ==
    LET r == GeoExpert_tool_run(tool, GeoExpert_outcome(tool, eng, plan, e))
    IN  IF r.raised THEN Response(FALSE, <<Section("error", "none", "none")>>, <<tool>>)
        ELSE Response(FALSE, <<r.section>>, <<tool>>)

\* IntelligentGeospatialAgent._process_comprehensive_environmental
GeoExpert_process_comprehensive_environmental(eng, plan, e) ==
    LET weather_result ==
            GeoExpert_tool_run("weather_tool", GeoExpert_outcome("weather_tool", eng, plan, e))
        air_quality_result ==
            GeoExpert_tool_run("airq_tool", GeoExpert_outcome("airq_tool", eng, plan, e))
    IN  IF weather_result.raised
        THEN Response(FALSE, <<Section("error", "none", "none")>>, <<"weather_tool">>)
        ELSE IF air_quality_result.raised
        THEN Response(FALSE, <<Section("error", "none", "none")>>,
                      <<"weather_tool", "airq_tool">>)
        ELSE Response(FALSE, <<weather_result.section, air_quality_result.section>>,
                      <<"weather_tool", "airq_tool">>)

GeoExpert_plan(q) ==
    [analysis_type |-> GeoExpert_classify_environmental_query(Lower(q)),
     candidates |-> Weather_potential_locations(q)]

GeoExpert_plans == [q \in Queries["geo_expert"] |-> GeoExpert_plan(q)]

\* IntelligentGeospatialAgent.process_intelligent_query
GeoExpert_process_intelligent_query(eng, plan, e) ==
    IF plan.analysis_type = "weather_intelligence"
    THEN GeoExpert_process_one("weather_tool", eng, plan, e)
    ELSE IF plan.analysis_type = "air_quality_intelligence"
    THEN GeoExpert_process_one("airq_tool", eng, plan, e)
    ELSE IF plan.analysis_type = "comprehensive_environmental"
    THEN GeoExpert_process_comprehensive_environmental(eng, plan, e)
    ELSE Response(FALSE, <<Section("static", "fallback-knowledge", "static")>>, <<>>)

GeoExpert_sources(plan) ==
    IF plan.analysis_type = "weather_intelligence" THEN {"weather_tool"}
    ELSE IF plan.analysis_type = "air_quality_intelligence" THEN {"airq_tool"}
    ELSE IF plan.analysis_type = "comprehensive_environmental"
    THEN {"weather_tool", "airq_tool"}
    ELSE {}

\* the tools the agent runs for the request, in order
GeoExpert_tools(plan) ==
    IF plan.analysis_type = "weather_intelligence" THEN <<"weather_tool">>
    ELSE IF plan.analysis_type = "air_quality_intelligence" THEN <<"airq_tool">>
    ELSE IF plan.analysis_type = "comprehensive_environmental"
    THEN <<"weather_tool", "airq_tool">>
    ELSE <<>>

GeoExpert_tool_runs(eng, plan, e) ==
    [i \in DOMAIN GeoExpert_tools(plan) |->
        GeoExpert_tool_trace(GeoExpert_tools(plan)[i], eng, plan, e)]

\* what the geocoding service and the data providers can answer to the tools
\* of one request: the service is asked for the candidates up to the first
\* that validates, a provider only for a location
GeoExpert_envs(eng, plan) ==
    LET Geocodes(tool) ==
            IF tool \in GeoExpert_sources(plan) /\ ~eng.demo_key
            THEN GeocodeRuns(plan.candidates) ELSE {<<>>}
        Data(tool, g) ==
            IF /\ tool \in GeoExpert_sources(plan)
               /\ Weather_extract_and_validate_location(eng, plan.candidates, g).location # ""
            THEN Answers(tool) ELSE {Unused}
    IN  UNION {{[NoEnv EXCEPT !.geocode = g, !.airq_geocode = h,
                              !.weather_tool = w, !.airq_tool = x] :
                    w \in Data("weather_tool", g), x \in Data("airq_tool", h)} :
               g \in Geocodes("weather_tool"), h \in Geocodes("airq_tool")}

(***************************************************************************)
(* main_backup.py: GeospatialAgent                                         *)
(***************************************************************************)
\* the names main_backup.py binds at module level
Backup_module_names ==
    {"requests", "json", "re", "datetime", "openai", "os", "GeospatialAgent",
     "AstronomicalAgent", "VisualIntelligenceAgent", "ResearchIntelligenceAgent"}

\* the methods class GeospatialAgent defines
Backup_methods ==
    {"__init__", "process", "_analyze_query_type", "_extract_location",
     "_get_live_weather", "_format_weather_response", "_generate_weather_analysis"}

\* GeospatialAgent._analyze_query_type
Backup_analyze_query_type(ql) ==
    IF AnyIn({"current weather", "weather now", "today weather"}, ql) THEN "weather_current"
    ELSE IF AnyIn({"forecast", "tomorrow", "next week", "prediction"}, ql)
    THEN "weather_forecast"
    ELSE IF AnyIn({"air quality", "aqi", "pollution", "pm2.5"}, ql) THEN "air_quality"
    ELSE IF AnyIn({"climate", "long term", "seasonal", "monthly"}, ql) THEN "climate_analysis"
    ELSE IF AnyIn({"environment", "ecosystem", "natural"}, ql) THEN "environmental"
    ELSE "general_weather"

\* ([A-Z][a-zA-Z\s,-]{2,}?)(?:\s|$|\?|!) tried at index j: the lengths the
\* group can take
Backup_group_lengths(s, j) ==
    {n \in 3..(Len(s) - j + 1) :
        /\ \A k \in j..(j + n - 1) : IsLocationChar(CharAt(s, k))
        /\ \/ j + n > Len(s)
           \/ CharAt(s, j + n) \in Whitespace \cup {"?", "!"}}

\* \bword\s+(group) tried at index i: the text of the group, or ""
Backup_match_at(word, s, i) ==
    LET j == SkipSpaces(s, i + Len(word))
    IN  IF /\ i + Len(word) - 1 <= Len(s)
           /\ SubSeq(s, i, i + Len(word) - 1) = word
           /\ (i = 1 \/ ~IsWordChar(CharAt(s, i - 1)))
           /\ j > i + Len(word)
           /\ j <= Len(s)
           /\ IsUpper(CharAt(s, j))
           /\ Backup_group_lengths(s, j) # {}
        THEN SubSeq(s, j, j + Min(Backup_group_lengths(s, j)) - 1)
        ELSE ""

\* re.search(pattern, query).group(1), or ""
Backup_search(word, s) ==
    LET starts == {i \in 1..Len(s) : Backup_match_at(word, s, i) # ""}
    IN  IF starts = {} THEN "" ELSE Backup_match_at(word, s, Min(starts))

\* the loop of _extract_location over its patterns
RECURSIVE Backup_first_location(_, _)
Backup_first_location(words, s) ==
    IF words = <<>> THEN ""
    ELSE LET stripped == RStrip(Backup_search(Head(words), s), Whitespace)
             location == RStrip(RStrip(RStrip(stripped, {","}), {"?"}), {"!"})
         IN  IF Len(location) > 2 THEN location
             ELSE Backup_first_location(Tail(words), s)

\* GeospatialAgent._extract_location; "" stands for None
Backup_extract_location(q) == Backup_first_location(<<"in", "for", "at", "of">>, q)

\* self.<method>(...): AttributeError when the class has no such method
Backup_call(method, section, calls) ==
    IF method \in Backup_methods
    THEN Response(FALSE, <<section>>, calls)
    ELSE Response(TRUE, <<>>, calls)

\* _get_live_weather sending the request with the 'demo' key as well
Backup_get_live_weather_demo_request(eng, location, e) ==
    IF location = ""
    THEN Backup_call("_no_location_response", Section("clarify", "none", "none"), <<>>)
    ELSE IF e["openweather"].status = "ok"
    THEN Backup_call("_format_weather_response",
                     Section("live", "live-data", "openweather"), <<"openweather">>)
    ELSE Backup_call("_connection_error_response",
                     Section("failed", "live-data", "openweather"), <<"openweather">>)

\* GeospatialAgent._get_live_weather
Backup_get_live_weather(eng, location, e) ==
    IF location = ""
    THEN Backup_call("_no_location_response", Section("clarify", "none", "none"), <<>>)
    ELSE IF eng.demo_key
    THEN Backup_call("_demo_weather_response",
                     Section("static", "fallback-knowledge", "static"), <<>>)
    ELSE LET outcome == e["openweather"].status
             failed == Section("failed", "live-data", "openweather")
             connection_error ==
                 Backup_call("_connection_error_response", failed, <<"openweather">>)
         IN  IF outcome = "ok"
             THEN Backup_call("_format_weather_response",
                              Section("live", "live-data", "openweather"),
                              <<"openweather">>)
             ELSE IF outcome = "http_err" /\ "_weather_error_response" \in Backup_methods
             THEN Response(FALSE, <<failed>>, <<"openweather">>)
             ELSE connection_error

Backup_plan(q) ==
    [location |-> Backup_extract_location(q),
     query_type |-> Backup_analyze_query_type(Lower(q))]

Backup_plans == [q \in Queries["backup"] |-> Backup_plan(q)]

\* the handler process() dispatches to
Backup_handler(query_type) ==
    IF query_type = "weather_current" THEN "_get_live_weather"
    ELSE IF query_type = "weather_forecast" THEN "_get_weather_forecast"
    ELSE IF query_type = "air_quality" THEN "_get_air_quality"
    ELSE IF query_type = "climate_analysis" THEN "_analyze_climate_patterns"
    ELSE IF query_type = "environmental" THEN "_environmental_analysis"
    ELSE "_general_geospatial_processing"

\* GeospatialAgent.process: its first statement reads the global logger
Backup_process(eng, plan, e) ==
    IF "logger" \notin Backup_module_names THEN Response(TRUE, <<>>, <<>>)
    ELSE IF Backup_handler(plan.query_type) = "_get_live_weather"
    THEN Backup_get_live_weather(eng, plan.location, e)
    ELSE Backup_call(Backup_handler(plan.query_type),
                     Section("static", "fallback-knowledge", "static"), <<>>)

Backup_sources(eng, plan) ==
    IF /\ "logger" \in Backup_module_names
       /\ plan.query_type = "weather_current"
       /\ plan.location # ""
       /\ ~eng.demo_key
    THEN {"openweather"}
    ELSE {}

(***************************************************************************)
(* tools/nasa_api.py, tools/isro_api.py: the provider tools                *)
(***************************************************************************)
\* a NASA tool asking once more after a failed request
Nasa_run_retry(tool, outcome) ==
    Response(FALSE, <<LiveSection(tool, outcome)>>,
             IF outcome \in ProviderFailures THEN <<tool, tool>> ELSE <<tool>>)

\* NasaApodTool._run, NasaMarsRoverTool._run, NasaAsteroidTool._run,
\* NasaSolarActivityTool._run: one GET with whatever api_key is configured;
\* "except Exception" covers the request, raise_for_status, the parsing and
\* the reading of the payload
Nasa_run(tool, outcome) == Response(FALSE, <<LiveSection(tool, outcome)>>, <<tool>>)

\* IsroApiTool._run: one GET; the except clause names
\* requests.exceptions.RequestException only.  The error response.json()
\* raises for an unreadable body is a RequestException in some releases of
\* requests and a plain ValueError in others: json_error_caught tells which
Isro_run(outcome, json_error_caught) ==
    IF outcome \in {"neterr", "http_err"} \/ (outcome = "malformed" /\ json_error_caught)
    THEN Response(FALSE, <<Section("failed", "live-data", "isro")>>, <<"isro">>)
    ELSE IF outcome = "malformed" THEN Response(TRUE, <<>>, <<"isro">>)
    ELSE Response(FALSE, <<Section("live", "live-data", "isro")>>, <<"isro">>)

\* IntelligentWeatherTool._get_comprehensive_weather_data: the request for
\* the current weather, then the one for the forecast; an exception of
\* either, or of the reading of the two payloads after both, ends in the
\* "retrieval failed" text
Weather_get_comprehensive_weather_data(current, forecast) ==
    LET failed == <<Section("failed", "live-data", "weather_tool")>>
    IN  IF current \in ProviderFailures
        THEN Response(FALSE, failed, <<"weather_tool">>)
        ELSE IF forecast \in ProviderFailures \/ "empty" \in {current, forecast}
        THEN Response(FALSE, failed, <<"weather_tool", "forecast">>)
        ELSE Response(FALSE, <<Section("live", "live-data", "weather_tool")>>,
                      <<"weather_tool", "forecast">>)

\* tool._run()
Tools_run(tool, outcome, later, json_error_caught) ==
    IF tool = "isro" THEN Isro_run(outcome, json_error_caught)
    ELSE IF tool = "weather_tool" THEN Weather_get_comprehensive_weather_data(outcome, later)
    ELSE Nasa_run(tool, outcome)

(***************************************************************************)
(* agents/data_harvester.py, multi_api_manager.py, astro_intel.py          *)
(***************************************************************************)
\* the loading that lets the missing entry through to the construction
Agents_load_agent_config_unguarded(name, file) ==
    IF file \in {"missing", "unreadable", "invalid_yaml", "empty"} THEN "default"
    ELSE IF file = "no_entry" THEN "incomplete"
    ELSE file

\* _load_agent_config: the configuration the agent is built from.  The
\* except clause covers open, safe_load and the subscript config[<entry>];
\* AstroIntelAgent reads the entry with config.get(<entry>, {})
Agents_load_agent_config(name, file) ==
    IF file \in {"missing", "unreadable", "invalid_yaml", "empty"} THEN "default"
    ELSE IF file = "no_entry" THEN (IF name = "astro_intel" THEN "none" ELSE "default")
    ELSE file

\* _create_agent: DataHarvesterAgent and MultiApiManagerAgent subscript the
\* configuration (KeyError without 'role'); AstroIntelAgent reads each field
\* with a default of its own
Agents_create_agent(name, config) ==
    IF config \in {"incomplete", "none"}
    THEN (IF name = "astro_intel"
          THEN Response(FALSE, <<Section("agent", "field-defaults", name)>>, <<>>)
          ELSE Response(TRUE, <<>>, <<>>))
    ELSE Response(FALSE, <<Section("agent", IF config = "default" THEN "default" ELSE "file",
                                   name)>>, <<>>)

(***************************************************************************)
(* Deployments                                                             *)
(***************************************************************************)
\* what construction leaves in the handler object: which components loaded
Engine(collection, embedding_model, crew, vector_store) ==
    [collection |-> collection, embedding_model |-> embedding_model,
     crew |-> crew, vector_store |-> vector_store,
     crewai_available |-> FALSE, demo_key |-> FALSE]

NoEngine == Engine(FALSE, FALSE, FALSE, FALSE)

\* IntelligentAstroGeo.__init__ / initialize_vector_db: the client or the
\* model may fail to load, and the store may hold no collection
Run_engines ==
    {Engine(c, m, FALSE, FALSE) : c \in BOOLEAN, m \in BOOLEAN}

\* IntelligentAstroGeoSystem._initialize_vector_db: a VectorStore, or None
Multi_engines == {Engine(FALSE, FALSE, FALSE, v) : v \in BOOLEAN}

\* FinalAstroGeoApp.initialize_components: the method assigns
\* CREWAI_AVAILABLE without declaring it global, so reading it before the
\* assignment raises UnboundLocalError, which the outer except swallows:
\* self.crew is never set.  The module-level flag tells whether the import
\* of crewai succeeded.
Final_engines ==
    {[Engine(c, m, FALSE, FALSE) EXCEPT !.crewai_available = a] :
        c \in BOOLEAN, m \in BOOLEAN, a \in BOOLEAN}

\* AstroGeoGradioApp.initialize_components: the vector store is built
\* before the crew, and one except covers both
Gradio_engines ==
    {Engine(FALSE, FALSE, FALSE, FALSE), Engine(FALSE, FALSE, FALSE, TRUE),
     Engine(FALSE, FALSE, TRUE, TRUE)}

\* IntelligentWeatherTool.__init__ / IntelligentAirQualityTool.__init__:
\* OPENWEATHERMAP_KEY, 'DEMO_KEY' when unset
GeoExpert_engines == {[NoEngine EXCEPT !.demo_key = d] : d \in BOOLEAN}

\* GeospatialAgent.__init__: OPENWEATHERMAP_KEY, 'demo' when unset
Backup_engines == {[NoEngine EXCEPT !.demo_key = d] : d \in BOOLEAN}

\* the tools read their key when built: NASA_API_KEY, 'DEMO_KEY' by default
Tools_engines == {[NoEngine EXCEPT !.demo_key = d] : d \in BOOLEAN}

Engines(a) ==
    IF a = "run" THEN Run_engines
    ELSE IF a = "tools" THEN Tools_engines
    ELSE IF a = "multi" THEN Multi_engines
    ELSE IF a = "final" THEN Final_engines
    ELSE IF a = "gradio" THEN Gradio_engines
    ELSE IF a = "backup" THEN Backup_engines
    ELSE IF a = "geo_expert" THEN GeoExpert_engines
    ELSE {NoEngine}

\* the requests one handler object is serving at the same time (gradio and
\* the API server call the handler from several threads), and the engine
\* as start-up left it
Slots == {1, 2}

Idle ==
    [phase |-> "idle", query |-> "", use_live |-> FALSE, env |-> NoEnv, resp |-> NoResponse]

NoRequests == [startup |-> NoEngine, slot |-> [s \in Slots |-> Idle]]

Init ==
    /\ app \in Apps
    /\ engine \in Engines(app)
    /\ phase = "idle"
    /\ query = ""
    /\ use_live = FALSE
    /\ env = NoEnv
    /\ resp = NoResponse
    /\ resp2 = NoResponse
    /\ tool_runs = <<>>
    /\ requests = NoRequests

\* a request arrives
Submit ==
    /\ phase = "idle"
    /\ \E q \in Queries[app], flag \in BOOLEAN :
          /\ HasLiveOption(app) \/ ~flag
          /\ query' = q
          /\ use_live' = flag
    /\ phase' = "pending"
    /\ env' = NoEnv
    /\ resp' = NoResponse
    /\ resp2' = NoResponse
    /\ tool_runs' = <<>>
    /\ UNCHANGED <<app, engine, requests>>

\* the response of handler a to one request, the sources answering e
Handle(a, eng, q, flag, e) ==
    IF a = "run" THEN Run_process_query(eng, Run_plans[q], flag, e)
    ELSE IF a = "multi" THEN Multi_process_query(eng, Multi_plans[q], flag, e)
    ELSE IF a = "astro_intel" THEN AstroIntel_analyze_query(AstroIntel_plans[q], e)
    ELSE IF a = "simple" THEN Simple_analyze_space_query(Simple_plans[q], flag, e)
    ELSE IF a = "final" THEN Final_analyze_space_query(eng, Final_plans[q], flag, e)
    ELSE IF a = "gradio" THEN Gradio_process_query(eng, Gradio_plans[q], flag, e)
    ELSE IF a = "geo_expert"
    THEN GeoExpert_process_intelligent_query(eng, GeoExpert_plans[q], e)
    ELSE Backup_process(eng, Backup_plans[q], e)

\* the sources handler a may ask on behalf of one request
Asked(a, eng, q, flag) ==
    IF a = "run" THEN Run_sources(eng, Run_plans[q], flag)
    ELSE IF a = "multi" THEN Multi_sources(eng, Multi_plans[q])
    ELSE IF a = "astro_intel" THEN AstroIntel_sources(AstroIntel_plans[q])
    ELSE IF a = "simple" THEN Simple_sources(Simple_plans[q], flag)
    ELSE IF a = "final" THEN Final_sources(eng, Final_plans[q], flag)
    ELSE IF a = "gradio" THEN Gradio_sources(eng, Gradio_plans[q])
    ELSE IF a = "geo_expert" THEN GeoExpert_sources(GeoExpert_plans[q])
    ELSE Backup_sources(eng, Backup_plans[q])

\* the answers the sources can give to one request of handler a
Offers(a, eng, q, flag) ==
    IF a = "geo_expert" THEN GeoExpert_envs(eng, GeoExpert_plans[q])
    ELSE Envs(Asked(a, eng, q, flag))

\* what the location tools of handler a did for one request
ToolRuns(a, eng, q, e) ==
    IF a = "geo_expert" THEN GeoExpert_tool_runs(eng, GeoExpert_plans[q], e)
    ELSE IF a = "gradio" THEN Gradio_tool_runs(eng, Gradio_plans[q])
    ELSE <<>>

\* the handler serves the pending request; nothing it does touches the engine
Serve ==
    /\ phase = "pending"
    /\ \E e \in Offers(app, engine, query, use_live) :
          LET r == Handle(app, engine, query, use_live, e)
          IN  /\ resp' = r
              /\ env' = e
              /\ tool_runs' = ToolRuns(app, engine, query, e)
    /\ phase' = "done"
    /\ UNCHANGED <<app, engine, query, use_live, resp2, requests>>

\* IntelligentAstroGeo.process_query
Run_ProcessQuery ==
    /\ app = "run"
    /\ Serve

\* IntelligentAstroGeoSystem.process_query
Multi_ProcessQuery ==
    /\ app = "multi"
    /\ Serve

\* AstroIntelAgent.analyze_astronomical_query
AstroIntel_AnalyzeQuery ==
    /\ app = "astro_intel"
    /\ Serve

\* SimpleFinalAstroGeoApp.analyze_space_query
Simple_AnalyzeSpaceQuery ==
    /\ app = "simple"
    /\ Serve

\* FinalAstroGeoApp.analyze_space_query
Final_AnalyzeSpaceQuery ==
    /\ app = "final"
    /\ Serve

\* AstroGeoGradioApp.process_query
Gradio_ProcessQuery ==
    /\ app = "gradio"
    /\ Serve

\* IntelligentGeospatialAgent.process_intelligent_query
GeoExpert_ProcessIntelligentQuery ==
    /\ app = "geo_expert"
    /\ Serve

\* GeospatialAgent.process
Backup_Process ==
    /\ app = "backup"
    /\ Serve

\* GeospatialAgent._extract_location, called on its own with the query
Backup_ExtractLocation ==
    /\ app = "backup"
    /\ phase = "pending"
    /\ tool_runs' = <<ToolRun("_extract_location", <<>>, Backup_plans[query].location,
                              <<>>, <<>>, {})>>
    /\ phase' = "located"
    /\ UNCHANGED <<app, engine, query, use_live, env, resp, resp2, requests>>

\* GeospatialAgent._get_live_weather, called on its own with the location
\* _extract_location returned
Backup_GetLiveWeather ==
    /\ app = "backup"
    /\ phase = "located"
    /\ LET location == tool_runs[1].location
       IN  \E e \in Envs(IF location # "" /\ ~engine.demo_key THEN {"openweather"} ELSE {}) :
              /\ resp' = Backup_get_live_weather(engine, location, e)
              /\ env' = e
    /\ phase' = "ran"
    /\ UNCHANGED <<app, engine, query, use_live, resp2, tool_runs, requests>>

\* create_data_harvester_agent / create_multi_api_manager_agent /
\* create_astro_intel_agent
Agent_Create ==
    /\ app = "agents"
    /\ phase = "pending"
    /\ \E e \in Envs({"agents_yaml"}) :
          /\ resp' = Agents_create_agent(
                         query, Agents_load_agent_config(query, e["agents_yaml"].status))
          /\ env' = e
    /\ phase' = "built"
    /\ UNCHANGED <<app, engine, query, use_live, resp2, tool_runs, requests>>

\* a provider tool is run on its own
Tool_Run ==
    /\ app = "tools"
    /\ phase = "pending"
    /\ \E outcome \in ProviderOutcomes, later \in ProviderOutcomes,
          json_error_caught \in BOOLEAN :
          LET r == Tools_run(query, outcome, later, json_error_caught)
          IN  /\ resp' = r
              /\ env' = IF Len(r.calls) = 2
                        THEN [NoEnv EXCEPT ![query] = Answer(outcome, <<>>),
                                           !["forecast"] = Answer(later, <<>>)]
                        ELSE [NoEnv EXCEPT ![query] = Answer(outcome, <<>>)]
    /\ phase' = "ran"
    /\ UNCHANGED <<app, engine, query, use_live, resp2, tool_runs, requests>>

\* the same request once more, the sources answering as before
ProcessAgain ==
    /\ phase = "done"
    /\ resp2' = Handle(app, engine, query, use_live, env)
    /\ phase' = "again"
    /\ UNCHANGED <<app, engine, query, use_live, env, resp, tool_runs, requests>>

\* the response is handed to the caller; nothing of the request is kept
Return ==
    /\ phase \in {"done", "again", "located", "ran", "built"}
    /\ phase' = "idle"
    /\ query' = ""
    /\ use_live' = FALSE
    /\ env' = NoEnv
    /\ resp' = NoResponse
    /\ resp2' = NoResponse
    /\ tool_runs' = <<>>
    /\ UNCHANGED <<app, engine, requests>>

Next ==
    \/ Submit
    \/ Run_ProcessQuery
    \/ Multi_ProcessQuery
    \/ AstroIntel_AnalyzeQuery
    \/ Simple_AnalyzeSpaceQuery
    \/ Final_AnalyzeSpaceQuery
    \/ Gradio_ProcessQuery
    \/ GeoExpert_ProcessIntelligentQuery
    \/ Backup_Process
    \/ Backup_ExtractLocation
    \/ Backup_GetLiveWeather
    \/ Tool_Run
    \/ Agent_Create
    \/ ProcessAgain
    \/ Return

Spec == Init /\ [][Next]_vars

(***************************************************************************)
(* Two requests served at the same time by one handler object              *)
(***************************************************************************)
ConcApps == {"run", "final"}

ConcQueries(a) == Texts(1, Vocab(a))

\* handling that forgets the index once a search of it has failed
Engine_after_drops_index(a, eng, q, e) ==
    IF e["index"].status = "raise" THEN [eng EXCEPT !.collection = FALSE] ELSE eng

\* what handling one request leaves in the engine: process_query,
\* analyze_space_query and what they call (search_vector_db,
\* get_nasa_live_data, ...) assign no attribute of self and no module global
Engine_after(a, eng, q, e) == eng

InitConc ==
    /\ app \in ConcApps
    /\ engine \in Engines(app)
    /\ phase = "idle"
    /\ query = ""
    /\ use_live = FALSE
    /\ env = NoEnv
    /\ resp = NoResponse
    /\ resp2 = NoResponse
    /\ tool_runs = <<>>
    /\ requests = [NoRequests EXCEPT !.startup = engine]

\* a request arrives while the other one may be in progress
Conc_Submit ==
    \E s \in Slots :
        /\ requests.slot[s].phase = "idle"
        /\ \E q \in ConcQueries(app), flag \in BOOLEAN :
              requests' = [requests EXCEPT !.slot[s] =
                              [Idle EXCEPT !.phase = "pending", !.query = q,
                                           !.use_live = flag]]
        /\ UNCHANGED <<app, engine, phase, query, use_live, env, resp, resp2, tool_runs>>

\* the handler serves one of the pending requests on the engine as it is now
Conc_Serve ==
    \E s \in Slots :
        LET r == requests.slot[s]
        IN  /\ r.phase = "pending"
            /\ \E e \in Offers(app, engine, r.query, r.use_live) :
                  /\ requests' = [requests EXCEPT !.slot[s] =
                                      [r EXCEPT !.phase = "done", !.env = e,
                                                !.resp = Handle(app, engine, r.query,
                                                                r.use_live, e)]]
                  /\ engine' = Engine_after(app, engine, r.query, e)
            /\ UNCHANGED <<app, phase, query, use_live, env, resp, resp2, tool_runs>>

\* one response is handed to its caller
Conc_Return ==
    \E s \in Slots :
        /\ requests.slot[s].phase = "done"
        /\ requests' = [requests EXCEPT !.slot[s] = Idle]
        /\ UNCHANGED <<app, engine, phase, query, use_live, env, resp, resp2, tool_runs>>

NextConc ==
    \/ Conc_Submit
    \/ Conc_Serve
    \/ Conc_Return

SpecConc == InitConc /\ [][NextConc]_vars

(***************************************************************************)
(* Properties                                                              *)
(***************************************************************************)
\* resp holds the response to the request in query
Answered == phase \in {"done", "again"}

\* the source each section of r was built from, in order
Ofs(r) == [i \in DOMAIN r.sections |-> r.sections[i].of]

Kinds(r) == {r.sections[i].kind : i \in DOMAIN r.sections}

Redirect == Section("redirect", "none", "none")

Static == Section("static", "fallback-knowledge", "static")

\* C1: never-empty: whatever the query and whatever the retriever and the
\* providers answer, the response of process_query (run_astrogeo,
\* multi_agent_astrogeo, gradio_app) contains at least one section.
C1_NeverEmpty ==
    Answered /\ app \in {"run", "multi", "gradio"} => Len(resp.sections) >= 1

\* every keyword of the table of run_astrogeo.analyze_query_intent
Run_all_keywords ==
    UNION {Run_KEYWORDS[a] : a \in DOMAIN Run_KEYWORDS}

\* the query is not blank and holds no keyword handler a knows
NoDomainKeyword ==
    /\ ~IsBlank(query)
    /\ app = "run" => ~AnyIn(Run_all_keywords, Lower(query))
    /\ app = "multi" => ~AnyIn(Multi_space_keywords, Lower(query))

\* C2 as stated: a query without any domain keyword gets exactly one
\* redirect section and causes no retriever and no provider call.
C2_OffTopicRedirect ==
    Answered /\ app \in {"run", "multi"} /\ NoDomainKeyword
        => resp.sections = <<Redirect>> /\ resp.calls = <<>>

\* C2, amended: a non-blank query without any domain keyword causes no
\* retriever and no provider call; multi_agent_astrogeo answers it with
\* exactly one redirect section, run_astrogeo (which has no off-topic class)
\* with exactly one static general-knowledge section.
C2_OffTopicTerminal ==
    Answered /\ app \in {"run", "multi"} /\ NoDomainKeyword
        => /\ resp.calls = <<>>
           /\ ~resp.raised
           /\ resp.sections = IF app = "multi" THEN <<Redirect>> ELSE <<Static>>

C2_Witness ==
    Answered /\ app = "multi" /\ query = "pizza weather" /\ resp.sections = <<Redirect>>

\* C3: the handler never raises: process_query of run_astrogeo and
\* GeospatialAgent.process of main_backup return a response whatever the
\* components they invoke do.
C3_NeverRaises ==
    Answered /\ app \in {"run", "backup"} => ~resp.raised

\* C4: failure isolation: every lookup AstroIntelAgent.analyze_query selected
\* for the query is invoked and contributes its section, in order, whether or
\* not another one failed; the comprehensive assessment of the geospatial
\* agent runs the weather and the air-quality lookup and shows both results
\* whatever either one's outcome.
C4_FailureIsolation ==
    /\ Answered /\ app = "astro_intel" /\ AstroIntel_plans[query].lookups # <<>>
          => /\ ~resp.raised
             /\ resp.calls = AstroIntel_plans[query].lookups
             /\ Ofs(resp) = AstroIntel_plans[query].lookups
    /\ Answered /\ app = "geo_expert"
          /\ GeoExpert_plans[query].analysis_type = "comprehensive_environmental"
          => /\ ~resp.raised
             /\ resp.calls = <<"weather_tool", "airq_tool">>
             /\ Ofs(resp) = <<"weather_tool", "airq_tool">>

\* two lookups, the first failed, the second delivered
C4_Witness ==
    /\ Answered
    /\ app = "astro_intel"
    /\ query = "today solar"
    /\ env["apod"].status = "neterr"
    /\ resp.sections = <<Section("failed", "live-data", "apod"),
                         Section("live", "live-data", "flr")>>

\* C5: partial failure across source kinds: when the live stage (the crew
\* run) fails and the retriever has passages above the floor for the query,
\* the response holds the knowledge-base section and is not error-only.
C5_PartialFailure ==
    /\ Answered
    /\ app \in {"gradio", "final"}
    /\ env["crew"].status = "raise"
    /\ env["index"].status = "ok"
    /\ AboveFloor(env["index"].docs, IF app = "final" THEN FinalFloor ELSE RunFloor) # <<>>
    => "kb" \in Kinds(resp) /\ "error" \notin Kinds(resp)

\* the entries of a keyword table that have a keyword in ql
Matching(table, ql) == {k \in DOMAIN table : AnyIn(table[k], ql)}

\* what the handler's classification selected for the query
Classified ==
    IF app = "run" THEN {Run_plans[query].intent.agent}
    ELSE IF app = "simple" THEN {Simple_plans[query].endpoint}
    ELSE SeqToSet(AstroIntel_plans[query].lookups)

KeywordTable ==
    IF app = "run" THEN Run_KEYWORDS
    ELSE IF app = "simple" THEN Simple_TERMS
    ELSE AstroIntel_TERMS

\* C6 as stated: classification is multi-label: every intent whose keyword
\* list has a keyword in the lower-cased query is among those selected.
C6_MultiLabel ==
    Answered /\ app \in {"run", "simple", "astro_intel"}
        => Matching(KeywordTable, Lower(query)) \subseteq Classified

\* C6, amended: AstroIntelAgent.analyze_query is multi-label: it runs the
\* lookup of every keyword list that matches, in table order.  The intent
\* analysis of run_astrogeo and the live-data chain of simple_final are
\* single-label: one section (one live request at most) comes out, that of
\* the first entry whose condition holds, so a query with an ISRO keyword
\* gets the ISRO answer only and a query with an APOD keyword the APOD
\* request only, whatever else it matches.
C6_FirstMatchOrAll ==
    /\ Answered /\ app = "astro_intel" /\ Matching(AstroIntel_TERMS, Lower(query)) # {}
          => resp.calls = SelectSeq(<<"apod", "flr", "neo">>,
                 LAMBDA k : k \in Matching(AstroIntel_TERMS, Lower(query)))
    /\ Answered /\ app = "run" /\ ~IsBlank(query)
          => /\ Len(resp.sections) = 1
             /\ Run_plans[query].intent.agent \in
                    Matching(Run_KEYWORDS, Lower(query)) \cup {"general_space"}
             /\ "isro_geospatial" \in Matching(Run_KEYWORDS, Lower(query))
                    => Ofs(resp) \in {<<"index">>, <<"static">>, <<"none">>}
    /\ Answered /\ app = "simple" /\ use_live
          => /\ Len(resp.calls) <= 1
             /\ "apod" \in Matching(Simple_TERMS, Lower(query)) => resp.calls = <<"apod">>

\* a query matching two entries of the table of run_astrogeo, one left out
C6_Witness ==
    /\ Answered
    /\ app = "run"
    /\ query = "ISRO mars"
    /\ Matching(Run_KEYWORDS, Lower(query)) = {"isro_geospatial", "mars_expert"}
    /\ Classified = {"isro_geospatial"}

\* the request goes to the ISRO branch of the handler
IsroRequest ==
    /\ ~IsBlank(query)
    /\ app = "run" => Run_plans[query].intent.agent = "isro_geospatial"
    /\ app = "multi" => Multi_plans[query].routing_result.agent = "ISROGeospatialAgent"

\* the index is loaded
IndexLoaded ==
    IF app = "run" THEN engine.collection /\ engine.embedding_model ELSE engine.vector_store

\* the passages above the floor the retriever has for the request
Retrieved ==
    IF IndexLoaded /\ env["index"].status = "ok"
    THEN AboveFloor(env["index"].docs, RunFloor)
    ELSE <<>>

\* C7 as stated: for an ISRO/Bhuvan request the static fallback is used only
\* when the retriever returned nothing or failed; with at least one passage
\* above the floor the section is the knowledge-base section.
C7_PassagesGiveKnowledgeBase ==
    Answered /\ app \in {"run", "multi"} /\ IsroRequest
        => /\ Retrieved # <<>> => resp.sections = <<Section("kb", "knowledge-base", "index")>>
           /\ "static" \in Kinds(resp) => Retrieved = <<>>

\* C7, amended: for an ISRO/Bhuvan request the handler consults the
\* retriever first whenever the index is loaded.  The knowledge-base section
\* is built only if a passage above the floor also mentions a content
\* keyword (run_astrogeo: bhuvan, saphir, ocm; multi_agent: isro, bhuvan,
\* saphir, ocm); otherwise, passages or not, the answer is the static text
\* (query mentions bhuvan; in multi_agent also isro) or a request to be more
\* specific.  In multi_agent an exception of the index search ends in the
\* system-error section.
C7_RetrieverThenContentCheck ==
    Answered /\ app \in {"run", "multi"} /\ IsroRequest
        => LET ql == Lower(query)
               content == IF app = "run" THEN {"bhuvan", "saphir", "ocm"}
                          ELSE {"isro", "bhuvan", "saphir", "ocm"}
               named == IF app = "run" THEN In("bhuvan", ql)
                        ELSE In("bhuvan", ql) \/ In("isro", ql)
           IN  /\ resp.calls = IF IndexLoaded THEN <<"index">> ELSE <<>>
               /\ resp.sections =
                     IF app = "multi" /\ IndexLoaded /\ env["index"].status = "raise"
                     THEN <<Section("error", "none", "none")>>
                     ELSE IF Retrieved # <<>> /\ AnyMentions(Retrieved, content)
                     THEN <<Section("kb", "knowledge-base", "index")>>
                     ELSE IF named THEN <<Static>>
                     ELSE <<Section("clarify", "none", "none")>>

\* a passage above the floor that mentions no content keyword
C7_Witness ==
    /\ Answered
    /\ app = "run"
    /\ query = "ISRO"
    /\ Retrieved # <<>>
    /\ resp.sections = <<Section("clarify", "none", "none")>>

\* the query matches no specific entry but holds a broad domain marker
General ==
    LET ql == Lower(query)
    IN  IF app = "run"
        THEN /\ Run_plans[query].intent.agent \in {"general_space", "space_agency_expert"}
             /\ AnyIn({"space", "astronomy", "nasa", "esa", "spacex"}, ql)
        ELSE IF app = "simple"
        THEN Matching(Simple_TERMS, ql) = {} /\ In("nasa", ql)
        ELSE Matching(AstroIntel_TERMS, ql) = {} /\ AnyIn({"nasa", "space", "astronomy"}, ql)

\* C8 as stated: a General query is answered from the knowledge base or the
\* static fallback, and no live provider call is issued for it.
C8_GeneralNoLiveCall ==
    Answered /\ app \in {"run", "simple", "astro_intel"} /\ General
        => resp.calls = <<>>

\* C8, amended: run_astrogeo answers a General query with the static
\* knowledge section and issues no call.  AstroIntelAgent.analyze_query
\* issues the live APOD request as its default for such a query, and
\* simple_final does the same whenever live data is enabled (with it
\* disabled it issues no call); simple_final adds its static knowledge
\* section either way.
C8_GeneralDefault ==
    Answered /\ app \in {"run", "simple", "astro_intel"} /\ General
        => /\ app = "run" => resp.calls = <<>> /\ resp.sections = <<Static>>
           /\ app = "astro_intel" => resp.calls = <<"apod">> /\ Ofs(resp) = <<"apod">>
           /\ app = "simple"
                 => /\ resp.calls = IF use_live THEN <<"apod">> ELSE <<>>
                    /\ "static" \in Kinds(resp)

C8_Witness ==
    /\ Answered
    /\ app = "astro_intel"
    /\ query = "space"
    /\ resp.sections = <<Section("live", "live-data", "apod")>>

\* every lookup the request issued ended in failure
AllFailed ==
    /\ resp.calls # <<>>
    /\ \A i \in DOMAIN resp.calls : env[resp.calls[i]].status \in ProviderFailures

\* C9 as stated: a response made only of failed or empty lookup sections is
\* never returned: an explicit "all sources unavailable" section is added.
C9_UnavailableSection ==
    Answered /\ app \in {"run", "astro_intel"} /\ resp.sections # <<>>
        => Kinds(resp) \ {"failed", "live_empty"} # {}

\* C9, amended: no handler adds an "all sources unavailable" section.  When
\* every live lookup of a request failed, the response of run_astrogeo and of
\* AstroIntelAgent.analyze_query consists of exactly the failure text of each
\* lookup, in order.
C9_FailuresReturnedAsIs ==
    Answered /\ app \in {"run", "astro_intel"}
        => /\ "unavailable" \notin Kinds(resp)
           /\ AllFailed
                 => resp.sections =
                        [i \in DOMAIN resp.calls |->
                            Section("failed", "live-data", resp.calls[i])]

C9_Witness ==
    /\ Answered
    /\ app = "run"
    /\ query = "solar"
    /\ use_live
    /\ resp.sections = <<Section("failed", "live-data", "flr")>>

Run_AGENTS == (DOMAIN Run_KEYWORDS) \cup {"general_space"}

\* the labels analyze_query_intent of gradio_app can return
Gradio_INTENTS == {"geospatial_analysis", "astronomical_analysis", "data_harvesting"}

\* C11: classification is total: for every non-empty query
\* analyze_query_intent (run_astrogeo, gradio_app) returns an intent, one of
\* the labels of its table or the default; it never returns nothing.
C11_ClassifyTotal ==
    Answered /\ query # ""
        => /\ app = "run" => Run_plans[query].intent.agent \in Run_AGENTS
           /\ app = "gradio" => Gradio_plans[query].intent \in Gradio_INTENTS

\* a query none of the keyword lists knows got the default
C11_Witness ==
    /\ Answered
    /\ app = "run"
    /\ query = "pizza"
    /\ Run_plans[query].intent.agent = "general_space"
    /\ resp.sections = <<Static>>

\* main_backup: what the pattern of one word leaves after the stripping
Backup_cleaned(word) ==
    RStrip(RStrip(RStrip(RStrip(Backup_search(word, query), Whitespace), {","}), {"?"}), {"!"})

\* the first element of the first sequence of seqs that is not empty, or ""
RECURSIVE FirstOf(_)
FirstOf(seqs) ==
    IF seqs = <<>> THEN ""
    ELSE IF Head(seqs) # <<>> THEN Head(seqs)[1]
    ELSE FirstOf(Tail(seqs))

\* weather_api: what each pattern finds in the query, in the order of the code
Weather_by_pattern ==
    <<Weather_search("for", query), Weather_search("in", query),
      Weather_start_match(query), Weather_not_stopped(Weather_caps_words(query, 1))>>

\* the forms the geocoding service can resolve candidate c to
ResolvedForms(c) ==
    {Weather_validate_location_with_geocoding_api(c, a).location :
        a \in GeocodeAnswers(c)} \ {""}

\* C12 as stated: the patterns are tried in the order "in", "for", "at",
\* "of", capitalized words, and the location comes from the first of them
\* that matches the query.
C12_FirstMatchingPatternWins ==
    /\ phase = "located" /\ tool_runs[1].location # ""
          => LET order == <<"in", "for", "at", "of">>
                 matching == {i \in 1..4 : Backup_search(order[i], query) # ""}
             IN  tool_runs[1].location = Backup_cleaned(order[Min(matching)])
    /\ Answered /\ app = "geo_expert"
          => \A i \in DOMAIN tool_runs :
                LET first == FirstOf(<<Weather_search("in", query),
                                       Weather_search("for", query),
                                       Weather_not_stopped(Weather_caps_words(query, 1))>>)
                    location == tool_runs[i].location
                IN  location # ""
                        => IF engine.demo_key THEN location = first
                           ELSE location \in ResolvedForms(first)

\* C12, amended: main_backup tries "in", "for", "at", "of" in that order and
\* returns the match of the first pattern whose match, stripped, is longer
\* than two characters (None without one).  weather_api collects the match
\* of every pattern, in the order "for", "in", leading phrase, capitalized
\* words: with the placeholder key the location is the first of them, with
\* geocoding it is the resolved form of a candidate all of whose
\* predecessors failed validation.
C12_PatternOrder ==
    /\ phase = "located"
          => LET order == <<"in", "for", "at", "of">>
                 long == {i \in 1..4 : Len(Backup_cleaned(order[i])) > 2}
             IN  tool_runs[1].location =
                     IF long = {} THEN "" ELSE Backup_cleaned(order[Min(long)])
    /\ Answered /\ app = "geo_expert"
          => \A i \in DOMAIN tool_runs :
                LET r == tool_runs[i]
                    answers == GeoExpert_geocode(r.by, env)
                    Fails(j) == Weather_validate_location_with_geocoding_api(
                                    r.candidates[j], answers[j]).location = ""
                IN  /\ engine.demo_key => r.location = FirstOf(Weather_by_pattern)
                    /\ ~engine.demo_key /\ r.location # ""
                          => \E k \in DOMAIN r.candidates :
                                /\ r.location \in ResolvedForms(r.candidates[k])
                                /\ \A j \in 1..(k - 1) : Fails(j)
                    /\ ~engine.demo_key /\ r.location = ""
                          => \A j \in DOMAIN r.candidates : Fails(j)

\* "for" and "in" both match and the match of "for" was taken; the match
\* of "at" was taken although "of" comes first in the query
C12_Witness ==
    \/ /\ Answered /\ app = "geo_expert" /\ engine.demo_key
       /\ query = "weather for Delhi in Mumbai"
       /\ tool_runs[1].location = "Delhi in Mumbai"
    \/ /\ phase = "located"
       /\ query = "weather of Goa at Pune"
       /\ tool_runs[1].location = "Pune"

\* C13: every location candidate, whichever pattern produced it, is filtered
\* against the stoplist of domain words: the extraction never returns a
\* stoplist word and never sends one to the geocoding service.
C13_StoplistFiltersEveryCandidate ==
    /\ Answered /\ app = "geo_expert"
          => \A i \in DOMAIN tool_runs :
                /\ Lower(tool_runs[i].location) \notin Weather_STOPLIST
                /\ \A k \in DOMAIN tool_runs[i].geocoded :
                      Lower(tool_runs[i].geocoded[k]) \notin Weather_STOPLIST
    /\ phase = "located" => Lower(tool_runs[1].location) \notin Weather_STOPLIST

\* the requests among reqs that are not the retry with ", India"
RECURSIVE DirectRequests(_)
DirectRequests(reqs) ==
    IF reqs = <<>> THEN <<>>
    ELSE IF In(", India", Head(reqs)) THEN DirectRequests(Tail(reqs))
    ELSE <<Head(reqs)>> \o DirectRequests(Tail(reqs))

\* name and country code of the place the geocoding service knows c as
PlaceForms(c) ==
    LET key == Lower(Weather_location_clean(c))
    IN  IF key \notin DOMAIN Gazetteer THEN {}
        ELSE {Gazetteer[key].name \o "," \o Gazetteer[key].country,
              Gazetteer[key].name \o ",IN"}

\* C14: with geocoding configured the extraction validates the candidates in
\* their order and returns the resolved form (name,country) of the first one
\* that resolves; with the placeholder key it returns the first candidate as
\* it is and sends nothing to the geocoding service.
C14_ValidateInOrder ==
    Answered /\ app = "geo_expert"
        => \A i \in DOMAIN tool_runs :
              LET r == tool_runs[i]
                  asked == DirectRequests(r.geocoded)
                  n == Len(asked)
              IN  IF engine.demo_key
                  THEN /\ r.geocoded = <<>>
                       /\ r.location = IF r.candidates = <<>> THEN "" ELSE r.candidates[1]
                  ELSE /\ n <= Len(r.candidates)
                       /\ \A j \in 1..n : asked[j] = Weather_location_clean(r.candidates[j])
                       /\ r.location # "" => r.location \in PlaceForms(r.candidates[n])
                       /\ r.location = "" => n = Len(r.candidates)
                       /\ \A j \in 1..(n - 1) :
                             Weather_validate_location_with_geocoding_api(
                                 r.candidates[j], GeoExpert_geocode(r.by, env)[j]).location = ""

\* the first candidate did not resolve, the second did
C14_Witness ==
    /\ Answered /\ app = "geo_expert" /\ ~engine.demo_key
    /\ query = "weather for Delhi in Mumbai"
    /\ tool_runs[1].geocoded = <<"Delhi in Mumbai", "Mumbai">>
    /\ tool_runs[1].location = "Mumbai,IN"

\* the geocoding service found no place in any of its answers
NothingResolved(answers) ==
    \A j \in DOMAIN answers : answers[j].direct # "found" /\ answers[j].india # "found"

\* no pattern of gradio_app.extract_location_from_query matches the query
Gradio_no_match ==
    Gradio_first_location(<<"weather", "rainfall", "temperature", "climate">>,
                          Lower(query)) = <<>>

\* what C15 and its amendment share: the tools of weather_api and
\* main_backup return None, raising nothing, when there is no candidate or
\* when no candidate resolves, and a location they return is a candidate or
\* the place the service resolved a candidate to
NoneWhenNothingFound ==
    /\ Answered /\ app = "geo_expert"
          => /\ ~resp.raised
             /\ \A i \in DOMAIN tool_runs :
                   LET r == tool_runs[i]
                   IN  /\ r.candidates = <<>> => r.location = ""
                       /\ ~engine.demo_key /\ NothingResolved(GeoExpert_geocode(r.by, env))
                             => r.location = ""
                       /\ r.location # ""
                             => \E k \in DOMAIN r.candidates :
                                   \/ r.location = r.candidates[k]
                                   \/ r.location \in PlaceForms(r.candidates[k])
    /\ phase = "located"
          /\ (\A w \in {"in", "for", "at", "of"} : Backup_search(w, query) = "")
          => tool_runs[1].location = ""

\* C15 as stated: the extraction returns None when nothing is found, and
\* never a made-up location, in weather_api, main_backup and gradio_app.
C15_NoneWhenNoCandidate ==
    /\ NoneWhenNothingFound
    /\ Answered /\ app = "gradio" /\ tool_runs # <<>> /\ Gradio_no_match
          => tool_runs[1].location = ""

\* C15, amended: weather_api and main_backup return None, raising nothing,
\* when no candidate is found or none resolves (every geocoding failure
\* included), and never a location that is not in the query;
\* gradio_app.extract_location_from_query returns "Delhi" when none of its
\* patterns matches.
C15_NoneOrDefault ==
    /\ NoneWhenNothingFound
    /\ Answered /\ app = "gradio" /\ tool_runs # <<>> /\ Gradio_no_match
          => tool_runs[1].location = "Delhi"

\* every geocoding request failed and the tool reported no location; the
\* gradio handler put Delhi into a query that names no place
C15_Witness ==
    \/ /\ Answered /\ app = "geo_expert" /\ ~engine.demo_key
       /\ query = "weather in mumbai"
       /\ env["geocode"] = <<GeoAnswer("error", "unused")>>
       /\ tool_runs[1].location = ""
       /\ resp.sections = <<Section("clarify", "none", "weather_tool")>>
    \/ /\ Answered /\ app = "gradio"
       /\ query = "rain today"
       /\ tool_runs[1].location = "Delhi"

\* the tools of weather_api: a run that found no location answers with the
\* "could not identify location, specify a clear city name" text and asks no
\* weather or air-quality provider
ToolsAskForLocation ==
    Answered /\ app = "geo_expert"
        => /\ Len(resp.sections) = Len(tool_runs) \/ tool_runs = <<>>
           /\ \A i \in DOMAIN tool_runs :
                 tool_runs[i].location = ""
                     => /\ resp.sections[i] = Section("clarify", "none", tool_runs[i].by)
                        /\ tool_runs[i].forwarded = <<>>
                        /\ env[tool_runs[i].by] = Unused

\* gradio_app: the request has the weather intent and no location
Gradio_weather_without_location ==
    /\ Answered /\ app = "gradio" /\ ~Gradio_plans[query].blank
    /\ Gradio_plans[query].intent = "geospatial_analysis"
    /\ Gradio_plans[query].location = ""

\* C16 as stated: when a weather or air-quality intent has no location, its
\* section is a clarification section and no provider request is issued.
C16_ClarifyInsteadOfProviderCall ==
    /\ ToolsAskForLocation
    /\ Gradio_weather_without_location
          => /\ "clarify" \in Kinds(resp)
             /\ resp.calls = <<>>

\* C16, amended: the weather and the air-quality tool answer a query without
\* a location with a clarification text and issue no provider request;
\* gradio_app has no clarification: for a weather request without a location
\* it hands the crew the location 'global' and runs it.
C16_ClarifyInToolsOnly ==
    /\ ToolsAskForLocation
    /\ Gradio_weather_without_location
          => /\ "clarify" \notin Kinds(resp)
             /\ engine.crew => resp.calls[1] = "crew"

\* no candidate resolved: the weather tool asks for a city and no provider
\* was asked
C16_Witness ==
    /\ Answered /\ app = "geo_expert" /\ ~engine.demo_key
    /\ query = "WEATHER IN MUMBAI!"
    /\ tool_runs[1].location = ""
    /\ tool_runs[1].geocoded # <<>>
    /\ resp.sections = <<Section("clarify", "none", "weather_tool")>>

\* C17: once the validation of a candidate succeeded, the resolved pair
\* (name,country) is the only location passed on to the retrieval of weather
\* or air-quality data; the text taken from the query is not passed on.
C17_ResolvedFormOnly ==
    Answered /\ app = "geo_expert" /\ ~engine.demo_key
        => \A i \in DOMAIN tool_runs :
              LET r == tool_runs[i]
              IN  r.location # ""
                      => /\ r.forwarded = <<r.location>>
                         /\ \E k \in DOMAIN r.candidates :
                               r.location \in PlaceForms(r.candidates[k])
                         /\ \A k \in DOMAIN r.candidates :
                               r.forwarded[1] # r.candidates[k]

\* "mumbai" was resolved and the weather data was requested for "Mumbai,IN"
C17_Witness ==
    /\ Answered /\ app = "geo_expert" /\ ~engine.demo_key
    /\ query = "weather in mumbai"
    /\ tool_runs[1].candidates = <<"mumbai">>
    /\ tool_runs[1].forwarded = <<"Mumbai,IN">>
    /\ resp.sections = <<Section("live", "live-data", "weather_tool")>>

\* C18: a result is stated to be of High confidence, or its location to be
\* validated, only when it carries live data obtained for a location the
\* geocoding service validated; never for an unvalidated guess (placeholder
\* key) and never for a failed lookup.
C18_HighOnlyForValidatedLiveData ==
    Answered /\ app = "geo_expert"
        => \A i \in DOMAIN tool_runs :
              tool_runs[i].labels \cap {"High", "validated"} # {}
                  => /\ resp.sections[i].kind = "live"
                     /\ tool_runs[i].location # ""
                     /\ ~engine.demo_key

\* the three ways of writing the same request for the weather of one city
MumbaiPhrasings == {"weather in mumbai", "Weather in Mumbai?", "WEATHER IN MUMBAI!"}

\* the geocoding service finds every place it knows at the first request
ServiceResolves(r) ==
    \A j \in DOMAIN GeoExpert_geocode(r.by, env) :
        Lower(Weather_location_clean(r.candidates[j])) \in DOMAIN Gazetteer
            => GeoExpert_geocode(r.by, env)[j].direct = "found"

\* C19: for a city the geocoding service resolves, written inside the phrase
\* "weather in X", the extraction returns the same location, the resolved
\* name of X, whatever the letter case of the query and whatever punctuation
\* surrounds X.
C19_SameLocationWhateverCaseOrPunctuation ==
    query \in MumbaiPhrasings
        => /\ Answered /\ app = "geo_expert" /\ ~engine.demo_key
                /\ ServiceResolves(tool_runs[1])
              => tool_runs[1].location = "Mumbai,IN"
           /\ phase = "located" => tool_runs[1].location = "Mumbai"
           /\ Answered /\ app = "gradio" /\ tool_runs # <<>>
              => tool_runs[1].location = "Mumbai"

\* the requests the validation of the candidates sends, given the answers of
\* the geocoding service: one for each candidate validated and, after an
\* empty answer for a candidate without a comma, one more for
\* "<candidate>, India"
RECURSIVE RequestsFor(_, _)
RequestsFor(candidates, answers) ==
    IF answers = <<>> \/ candidates = <<>> THEN <<>>
    ELSE LET c == Weather_location_clean(Head(candidates))
         IN  <<c>>
             \o (IF Head(answers).direct = "empty" /\ ~In(",", c)
                 THEN <<c \o ", India">> ELSE <<>>)
             \o RequestsFor(Tail(candidates), Tail(answers))

\* C20 (as stated): one extraction sends at most one geocoding request per
\* candidate, at most n requests for a query with n candidates.
C20_OneRequestPerCandidate ==
    Answered /\ app = "geo_expert"
        => \A i \in DOMAIN tool_runs :
              Len(tool_runs[i].geocoded) <= Len(tool_runs[i].candidates)

\* C20 (amended): one extraction sends at most two geocoding requests per
\* candidate, at most 2n for n candidates: the request for the candidate and,
\* only after an empty answer for a candidate without a comma, the request
\* for "<candidate>, India"; none with the placeholder key.
C20_AtMostTwoRequestsPerCandidate ==
    Answered /\ app = "geo_expert"
        => \A i \in DOMAIN tool_runs :
              LET r == tool_runs[i]
                  answers == GeoExpert_geocode(r.by, env)
              IN  /\ Len(r.geocoded) <= 2 * Len(r.candidates)
                  /\ Len(answers) <= Len(r.candidates)
                  /\ r.geocoded = RequestsFor(r.candidates, answers)
                  /\ engine.demo_key => r.geocoded = <<>>

\* one candidate, two requests: the second one found the city
C20_Witness ==
    /\ Answered /\ app = "geo_expert" /\ ~engine.demo_key
    /\ query = "weather in mumbai"
    /\ tool_runs[1].candidates = <<"mumbai">>
    /\ tool_runs[1].geocoded = <<"mumbai", "mumbai, India">>
    /\ tool_runs[1].location = "Mumbai,IN"

\* what search_vector_db returned for the request, and its floor
Searched ==
    IF app = "run" THEN Run_search_vector_db(engine, env["index"]).docs
    ELSE Final_search_vector_db(engine, env["index"]).docs

Floor == IF app = "run" THEN RunFloor ELSE FinalFloor

\* C21: relevance floor: every fragment search_vector_db returns has a score
\* (1 - distance) strictly above the floor and within [0,1]; the candidates
\* at or below the floor, the one exactly at the floor included, are not
\* returned and every candidate above it is.
C21_StrictlyAboveFloor ==
    Answered /\ app \in {"run", "final"} /\ env["index"].status = "ok"
        => /\ \A i \in DOMAIN Searched :
                 /\ Searched[i].score > Floor
                 /\ Searched[i].score >= 0 /\ Searched[i].score <= 10
           /\ engine.collection /\ engine.embedding_model =>
                 Len(Searched) = Cardinality({j \in DOMAIN env["index"].docs :
                                                 10 - env["index"].docs[j].distance > Floor})

\* the nearer candidate is returned, the one exactly at the floor is not
C21_Witness ==
    /\ Answered /\ app = "run"
    /\ resp.calls = <<"index">>
    /\ env["index"].docs = <<Doc("Bhuvan OCM data products", 7)>>
    /\ Searched = <<>>
    /\ resp.sections # <<Section("kb", "knowledge-base", "index")>>

\* C22: fail-soft retrieval: search_vector_db (run_astrogeo,
\* multi_agent_astrogeo) returns an empty list and raises nothing when the
\* index was not loaded at start-up, when the query of the index fails and
\* when nothing scores above the floor.
C22_SearchFailsSoft ==
    Answered /\ app \in {"run", "multi"}
        => LET found == IF app = "run"
                        THEN [Run_search_vector_db(engine, env["index"])
                                 EXCEPT !.called = @] @@ [raised |-> FALSE]
                        ELSE Multi_search_vector_db(engine, env["index"])
           IN  /\ ~IndexLoaded => found.docs = <<>> /\ ~found.called
               /\ "index" \in SeqToSet(resp.calls)
                     => /\ ~found.raised
                        /\ env["index"].status = "raise" => found.docs = <<>>
                        /\ Retrieved = <<>> => found.docs = <<>>

\* the source the provider call run on its own asked, and what it answered
Provider == IF app = "tools" THEN query ELSE "openweather"

\* C23: every provider call (the tools of nasa_api and isro_api,
\* _get_live_weather of main_backup) returns exactly one result for every
\* outcome of its HTTP request: a network error, an error status and an
\* unreadable payload each become a failure result; nothing is raised.
C23_EveryOutcomeOneResult ==
    phase = "ran"
        => /\ ~resp.raised
           /\ Len(resp.sections) = 1
           /\ env[Provider].status \in ProviderFailures
                 => resp.sections[1].kind = "failed"

NoRepeat(calls) ==
    \A i \in DOMAIN calls : \A j \in DOMAIN calls : calls[i] = calls[j] => i = j

C27_DefaultConfigOnProblems ==
    phase = "built"
        /\ env["agents_yaml"].status \in {"missing", "unreadable", "invalid_yaml", "no_entry"}
        => /\ ~resp.raised
           /\ resp.sections \in {<<Section("agent", "default", query)>>,
                                 <<Section("agent", "field-defaults", query)>>}

\* the file has no entry for the data harvester: the agent has the defaults
C27_Witness ==
    /\ phase = "built" /\ query = "data_harvester"
    /\ env["agents_yaml"].status = "no_entry"
    /\ resp = Response(FALSE, <<Section("agent", "default", "data_harvester")>>, <<>>)

\* the live providers reached over HTTP
LiveProviders == {"apod", "flr", "neo", "mars_photos"}

\* C28: the "allow live providers" flag is honoured: a request handled with
\* the flag off (run_astrogeo, multi_agent_astrogeo, simple_final) sends no
\* request to a live provider, whatever the query; only the retriever and
\* the static knowledge are used.
C28_FlagOffNoLiveRequest ==
    Answered /\ app \in {"run", "multi", "simple"} /\ ~use_live
        => /\ \A i \in DOMAIN resp.calls : resp.calls[i] \notin LiveProviders
           /\ \A s \in LiveProviders : env[s].status = "unused"

\* C29: classification and dispatch agree in run_astrogeo: with live data
\* enabled the request get_nasa_live_data sends is the one of the agent
\* analyze_query_intent chose: nasa_live exactly one astronomy-picture
\* request, space_weather exactly one solar-flare request, asteroid_tracker
\* exactly one near-earth-object request; never another provider's request
\* and never the "please specify" text with no request.
C29_DispatchFollowsClassification ==
    Answered /\ app = "run" /\ use_live /\ ~IsBlank(query)
        => LET agent == Run_plans[query].intent.agent
           IN  /\ agent = "nasa_live" => resp.calls = <<"apod">>
               /\ agent = "space_weather" => resp.calls = <<"flr">>
               /\ agent = "asteroid_tracker" => resp.calls = <<"neo">>
               /\ agent \in {"nasa_live", "space_weather", "asteroid_tracker"}
                     => resp.sections # <<Section("clarify", "none", "none")>>

\* C30: router and agents agree in multi_agent_astrogeo: a query some
\* specialist agent can handle is routed to the first such agent of the
\* agent list and is never answered with the off-topic redirect; route_query
\* returns an agent only when that agent can handle the query, and exactly
\* one of agent and message is set in its result.
C30_RouterAgreesWithAgents ==
    Answered /\ app = "multi" /\ ~IsBlank(query)
        => LET ql == Lower(query)
               routing_result == Multi_plans[query].routing_result
               first == FirstAgent(Multi_agents, 1, ql)
           IN  /\ first # "None"
                     => /\ routing_result.agent = first
                        /\ resp.sections # <<Redirect>>
               /\ routing_result.agent # "None"
                     => Multi_can_handle(routing_result.agent, ql)
               /\ (routing_result.agent = "None") # (routing_result.message = "None")

====
